---------------------------- MODULE Spec2Model ----------------------------
(***************************************************************************)
(* Model of pysweepme's Port / PortManager subsystem                       *)
(* (src/src/pysweepme/Ports.py, src/src/pysweepme/PortManager.py).         *)
(*                                                                         *)
(* A Python dict is a TLA+ function whose DOMAIN is the set of its keys;   *)
(* dict.update is Update.  A Port object is a record                       *)
(*   [port_ID, port_properties, port]                                      *)
(* where port is the state of the transport handle self.port.  Objects     *)
(* live in heap (their index is their identity); the PortManager's         *)
(* self._ports maps a resource string to an object.  An exception is the   *)
(* field exc of an operation's outcome.                                    *)
(***************************************************************************)
EXTENDS Integers, Sequences, FiniteSets, TLC

VARIABLES
    heap,       \* Seq of Port objects ever constructed and handed out
    _ports,     \* PortManager._ports, an OrderedDict: Seq of [key, port], port a heap index or FalseEntry
    rm,         \* Ports.rm, the VISA resource manager: "None" | "open" | "closed"
    ctrl_open,  \* PrologixGPIBcontroller.port.is_open of the registered controller
    last,       \* the last call and what it returned
    sock,       \* one open SOCKETport: its properties, buffer and terminations
    conn,       \* its TCP connection: the bytes under way to and from the peer
    call,       \* the read() call on the SOCKETport, in progress or completed
    now,        \* the clock the write delays are measured with
    wr,         \* one open Port used for writing: its delay, its time stamp, its transport writes
    plx,        \* one PrologixGPIBcontroller: the address it remembers, the lines it sends
    pm,         \* PortManager._instance and what the last PortManager() returned
    com,        \* one COMport read from and written to: its properties, its serial line, its calls
    dev,        \* one EmptyDevice driver object: its defaults and its saved parameters
    qry,        \* one Port shared by two callers of query(): their positions, the line
    ctl         \* Ports.prologix_controller as add/remove change it, and what discovery returned

pmVars == <<heap, _ports, rm, ctrl_open>>
sockVars == <<sock, conn, call>>
wrVars == <<now, wr>>
xVars == <<pm, com, dev, qry, ctl>>
ioVars == <<sock, conn, call, now, wr, plx, pm, com, dev, qry, ctl>>
vars == <<heap, _ports, rm, ctrl_open, last, sock, conn, call, now, wr, plx, pm, com,
          dev, qry, ctl>>

-----------------------------------------------------------------------------
(* Bounds *)

\* Port objects constructed in one behaviour
MaxPorts == 2

-----------------------------------------------------------------------------
(* Python dicts *)

EmptyDict == << >>

\* the one element of a singleton set
Only(S) == CHOOSE x \in S : TRUE

Update(a, b) ==
    IF DOMAIN b = {} THEN a
    ELSE [k \in (DOMAIN a) \cup (DOMAIN b) |-> IF k \in DOMAIN b THEN b[k] ELSE a[k]]

-----------------------------------------------------------------------------
(* Resource strings.  TLC strings are atomic, so the string tests of the   *)
(* code are tables over the resource strings the model uses.               *)

ResourcesAll ==
    { "COM1", "GPIB0::1::INSTR", "GPIB::5::Prologix@COM9", "GPIB::7::Prologix@COM9",
      "PXI0::1::INSTR",
      "ASRL1::INSTR", "TCPIP0::1.2.3.4::INSTR", "192.168.0.2:5025",
      "USB0::1::INSTR", "USBTMC1", "XYZ" }

\* str.startswith
StartsWith(ID, p) ==
    <<ID, p>> \in
        { <<"COM1", "COM">>,
          <<"GPIB0::1::INSTR", "GPIB">>, <<"GPIB::5::Prologix@COM9", "GPIB">>,
          <<"GPIB::7::Prologix@COM9", "GPIB">>,
          <<"PXI0::1::INSTR", "PXI">>, <<"ASRL1::INSTR", "ASRL">>,
          <<"TCPIP0::1.2.3.4::INSTR", "TCPIP">>,
          <<"USB0::1::INSTR", "USB">>,
          <<"USBTMC1", "USB">>, <<"USBTMC1", "USBTMC">> }

\* is_IP(port_str)[0]: the regular expression is searched, not anchored
is_IP(ID) == ID = "192.168.0.2:5025"

\* "Prologix" in ID
HasPrologix(ID) == ID \in {"GPIB::5::Prologix@COM9", "GPIB::7::Prologix@COM9"}

\* ID.split("::")[-1][9:], the serial address of the controller
ControllerOf(ID) == IF HasPrologix(ID) THEN "COM9" ELSE "?"

\* Ports.prologix_controller: the controllers registered from the configuration
prologix_controller == {"COM9"}

\* Ports.port_types (ASRL is commented out)
port_types == {"COM", "GPIB", "PXI", "USBTMC", "TCPIP", "SOCKET"}

\* the Port subclass Ports.get_port picks, in the order of its elif chain
PortClass(ID) ==
    IF StartsWith(ID, "GPIB") THEN "GPIB"
    ELSE IF StartsWith(ID, "PXI") THEN "PXI"
    ELSE IF StartsWith(ID, "ASRL") THEN "ASRL"
    ELSE IF StartsWith(ID, "TCPIP") THEN "TCPIP"
    ELSE IF StartsWith(ID, "COM") THEN "COM"
    ELSE IF StartsWith(ID, "SOCKET") \/ is_IP(ID) THEN "SOCKET"
    ELSE IF StartsWith(ID, "USB") \/ StartsWith(ID, "USBTMC") THEN "USBTMC"
    ELSE "none"

\* the classes whose open_internal goes through the VISA resource manager
VisaClasses == {"GPIB", "PXI", "USBTMC", "TCPIP"}


-----------------------------------------------------------------------------
(* Port objects *)

\* PortType.properties: one dict object shared by every PortType subclass
\* (each subclass binds properties = PortType.properties and updates it in
\* place), so every kind has the same defaults
PortTypeProperties == [clear |-> TRUE, baudrate |-> 9600]

\* Port.update_properties
update_properties(p, properties) ==
    [p EXCEPT !.port_properties = Update(@, properties)]

\* Port.initialize_port_properties: port_types[type] raises KeyError for a
\* type that is no key of port_types
initialize_port_properties(p) ==
    IF p.port_properties["type"] \notin port_types
    THEN [exc |-> TRUE, p |-> p]
    ELSE [exc |-> FALSE, p |-> update_properties(p, PortTypeProperties)]

\* Port.__init__ (COMport.__init__ binds self.port to a closed serial.Serial(),
\* whose baudrate is 9600 until refresh_port assigns one)
PortInit(ID) ==
    initialize_port_properties(
        [ port_ID |-> ID,
          port_properties |->
              [type |-> PortClass(ID), active |-> TRUE, open |-> FALSE,
               clear |-> TRUE, NrDevices |-> 0, ID |-> ID],
          port |-> IF PortClass(ID) = "COM" THEN "closed" ELSE "None",
          baudrate |-> 9600 ])

\* COMport.refresh_port: the serial connection takes the settings the
\* properties hold now; baudrate stands for all the settings assigned
refresh_port(p) ==
    IF PortClass(p.port_ID) = "COM"
    THEN [p EXCEPT !.baudrate = p.port_properties["baudrate"]]
    ELSE p

\* Ports.close_resourcemanager
close_resourcemanager(r) == IF r = "open" THEN "closed" ELSE r

\* Ports.get_resourcemanager: ret is what it returns ("rm" or "False").  A
\* closed manager (InvalidSession) is replaced by open_resourcemanager(), which
\* succeeds as it did at import; rm = None (no backend) raises AttributeError
\* and the function returns False
get_resourcemanager(r) ==
    CASE r = "open"   -> [rm |-> "open", ret |-> "rm"]
      [] r = "closed" -> [rm |-> "open", ret |-> "rm"]
      [] OTHER        -> [rm |-> "None", ret |-> "False"]

\* Ports.open_resourcemanager(): None when no VISA library can be loaded
open_resourcemanager(backend) == IF backend THEN "open" ELSE "None"

\* Ports.get_resourcemanager when the VISA backend is or is not available at
\* the time of the call: a closed manager is replaced by what
\* open_resourcemanager() returns and that is returned (None if it failed);
\* for rm = None, rm.session raises AttributeError and False is returned
\* without any attempt to open
get_resourcemanager_with(r, backend) ==
    CASE r = "open"   -> [rm |-> "open", ret |-> "rm"]
      [] r = "closed" -> [rm |-> open_resourcemanager(backend),
                          ret |-> IF backend THEN "rm" ELSE "None"]
      [] OTHER        -> [rm |-> "None", ret |-> "False"]

\* <Class>port.open_internal; ok says whether the transport can be opened now.
\* Outcome: [exc, port (the handle), rm, ctrl]
open_internal(p, r, ctrl, ok) ==
    LET cls == PortClass(p.port_ID)
        ID  == p.port_properties["ID"]
        g   == get_resourcemanager(r)
    IN  CASE cls = "COM" ->
               [exc |-> ~ok, port |-> IF ok THEN "live" ELSE "closed", rm |-> r, ctrl |-> ctrl]
          [] cls = "SOCKET" ->
               [exc |-> ~ok, port |-> IF ok THEN "live" ELSE "closed", rm |-> r, ctrl |-> ctrl]
          [] cls = "GPIB" /\ HasPrologix(ID) ->
               IF ControllerOf(ID) \notin prologix_controller
               THEN [exc |-> TRUE, port |-> p.port, rm |-> r, ctrl |-> ctrl]
               ELSE IF ctrl \/ ok
                    THEN [exc |-> FALSE, port |-> "ctrl", rm |-> r, ctrl |-> TRUE]
                    ELSE [exc |-> TRUE, port |-> "ctrl", rm |-> r, ctrl |-> FALSE]
          [] OTHER ->
               IF g.ret = "False"
               THEN [exc |-> FALSE, port |-> p.port, rm |-> g.rm, ctrl |-> ctrl]
               ELSE IF ~ok
                    THEN [exc |-> TRUE, port |-> p.port, rm |-> g.rm, ctrl |-> ctrl]
                    ELSE [exc |-> FALSE, port |-> "live", rm |-> g.rm, ctrl |-> ctrl]

\* Port.open: open_internal (COMport.open_internal starts with refresh_port),
\* then the open flag.  Outcome: [exc, p, rm, ctrl]
PortOpen(p, r, ctrl, ok) ==
    Only({ [ exc |-> o.exc, rm |-> o.rm, ctrl |-> o.ctrl,
             p |-> IF o.exc THEN [refresh_port(p) EXCEPT !.port = o.port]
                   ELSE [refresh_port(p) EXCEPT !.port = o.port,
                                                !.port_properties["open"] = TRUE] ] :
           o \in {open_internal(p, r, ctrl, ok)} })

\* <Class>port.close_internal: self.port.close(); None has no close()
close_internal(p, ctrl) ==
    CASE p.port = "None" -> [exc |-> TRUE, port |-> p.port, ctrl |-> ctrl]
      [] p.port = "ctrl" -> [exc |-> FALSE, port |-> p.port, ctrl |-> FALSE]
      [] OTHER           -> [exc |-> FALSE, port |-> "closed", ctrl |-> ctrl]

\* Port.close.  Outcome: [exc, p, ctrl]
PortClose(p, ctrl) ==
    Only({ [ exc |-> c.exc, ctrl |-> c.ctrl,
             p |-> IF c.exc THEN [p EXCEPT !.port = c.port]
                   ELSE [p EXCEPT !.port = c.port, !.port_properties["open"] = FALSE] ] :
           c \in {close_internal(p, ctrl)} })

\* Port.clear raises when the handle cannot be cleared: None has no clear(),
\* a serial port or VISA session that is not open raises; the Prologix
\* controller's clear() is guarded by is_open
PortClearRaises(p) ==
    CASE p.port = "None" -> TRUE
      [] p.port = "ctrl" -> FALSE
      [] OTHER           -> p.port # "live"

\* Port.open when the open flag is False, as both get_port functions call it
OpenIfClosed(p, r, ctrl, ok) ==
    IF p.port_properties["open"] = FALSE
    THEN PortOpen(p, r, ctrl, ok)
    ELSE [exc |-> FALSE, p |-> p, rm |-> r, ctrl |-> ctrl]

\* Ports.get_port after the Port object c.p was constructed
Ports_get_port_open(c, properties, r, ctrl, ok) ==
    Only({ IF i.exc
           THEN [ret |-> "raise", p |-> c.p, rm |-> r, ctrl |-> ctrl]
           ELSE Only({ [ ret |-> IF o.exc \/ (o.p.port_properties["clear"] /\ PortClearRaises(o.p))
                                 THEN "raise" ELSE "Port",
                         p |-> o.p, rm |-> o.rm, ctrl |-> o.ctrl ] :
                       o \in {OpenIfClosed(p1, r, ctrl, ok) :
                                 p1 \in {update_properties(i.p, properties)}} }) :
           i \in {initialize_port_properties(c.p)} })

\* Ports.get_port.  Outcome: [ret ("Port", "False" or "raise"), p, rm, ctrl]
Ports_get_port(ID, properties, r, ctrl, ok) ==
    Only({ IF PortClass(ID) = "none" \/ c.exc
           THEN [ret |-> "False", p |-> c.p, rm |-> r, ctrl |-> ctrl]
           ELSE Ports_get_port_open(c, properties, r, ctrl, ok) :
           c \in {PortInit(ID)} })

-----------------------------------------------------------------------------
(* PortManager *)

\* the value Ports.get_port returns on failure, when it is stored in _ports
FalseEntry == 0

\* last: the operation, its arguments (res, P, kinds), what the environment
\* supplied (D the dialog's properties, found the discovered resources, ok
\* whether the transport could be opened), what the call returned (ret, list)
\* and the property keys it emitted a diagnostic for (diag)
NoCall == [op |-> "init", res |-> "", P |-> EmptyDict, D |-> EmptyDict,
           ret |-> "None", kinds |-> {}, found |-> {}, list |-> {}, ok |-> TRUE,
           diag |-> {}]

Call(op, res, P, D, ret) ==
    [NoCall EXCEPT !.op = op, !.res = res, !.P = P, !.D = D, !.ret = ret]

\* resource in self._ports
InPorts(d, resource) == \E i \in DOMAIN d : d[i].key = resource

\* self._ports[resource]
PortOf(d, resource) == d[CHOOSE i \in DOMAIN d : d[i].key = resource].port

\* self._ports[resource] = port: a new key goes to the end
SetPort(d, resource, n) ==
    IF InPorts(d, resource)
    THEN [i \in DOMAIN d |-> IF d[i].key = resource THEN [d[i] EXCEPT !.port = n] ELSE d[i]]
    ELSE Append(d, [key |-> resource, port |-> n])

\* del self._ports[resource]
DelPort(d, resource) ==
    LET keep(e) == e.key # resource IN SelectSeq(d, keep)

\* heap[n] = q, n the next free index for a new object
PutObject(h, n, q) == IF n > Len(h) THEN Append(h, q) ELSE [h EXCEPT ![n] = q]

\* rm.close() ends every session opened through the resource manager
SessionsClosed(h) ==
    [i \in DOMAIN h |->
        IF PortClass(h[i].port_ID) \in VisaClasses /\ h[i].port = "live"
        THEN [h[i] EXCEPT !.port = "closed"] ELSE h[i]]

\* PortManager.close_resourcemanager and its effect on the open sessions
CloseRM(h, r) == IF r = "open" THEN SessionsClosed(h) ELSE h

\* the keys of all_port_properties in PortManager.get_port: the properties
\* of every port type
all_port_properties == DOMAIN PortTypeProperties

\* the keys of properties get_port calls debug() for
UnknownKeys(properties) ==
    {key \in DOMAIN properties : key \notin all_port_properties}

\* a get_port call, what it reported and what it returned
GetPortCall(resource, P, D, ok, ret) ==
    [Call("get_port", resource, P, D, ret) EXCEPT !.diag = UnknownKeys(P), !.ok = ok]

\* PortManager.get_port(resource, properties); D is what
\* get_port_properties_from_dialog(resource) returns
\* the body of PortManager.get_port, properties bound to the mapping P
get_port_body(resource, P, D, ok) ==
    /\ \E properties \in {Update(P, D)} :
           IF ~InPorts(_ports, resource)
           THEN \E g \in {Ports_get_port(resource, properties, rm, ctrl_open, ok)} :
                IF g.ret = "Port"
                THEN \E o \in {OpenIfClosed(g.p, g.rm, g.ctrl, ok)} :
                     /\ Len(heap) < MaxPorts
                     /\ heap' = Append(heap, o.p)
                     /\ _ports' = SetPort(_ports, resource, Len(heap) + 1)
                     /\ rm' = o.rm
                     /\ ctrl_open' = o.ctrl
                     /\ last' = GetPortCall(resource, P, D, ok,
                                     IF o.exc THEN "raise" ELSE "Port")
                ELSE \* Ports.get_port returned False, or raised and the bare
                     \* except returned False
                     /\ UNCHANGED <<heap, _ports>>
                     /\ rm' = g.rm
                     /\ ctrl_open' = g.ctrl
                     /\ last' = GetPortCall(resource, P, D, ok, "False")
           ELSE IF PortOf(_ports, resource) = FalseEntry
           THEN \* False.initialize_port_properties() raises AttributeError
                /\ UNCHANGED <<heap, _ports, rm, ctrl_open>>
                /\ last' = GetPortCall(resource, P, D, ok, "raise")
           ELSE \E n \in {PortOf(_ports, resource)} :
                \E i \in {initialize_port_properties(heap[n])} :
                IF i.exc
                THEN /\ UNCHANGED <<heap, _ports, rm, ctrl_open>>
                     /\ last' = GetPortCall(resource, P, D, ok, "raise")
                ELSE \E o \in {OpenIfClosed(update_properties(i.p, properties),
                                            rm, ctrl_open, ok)} :
                     /\ heap' = [heap EXCEPT ![n] = o.p]
                     /\ rm' = o.rm
                     /\ ctrl_open' = o.ctrl
                     /\ UNCHANGED _ports
                     /\ last' = GetPortCall(resource, P, D, ok,
                                     IF o.exc THEN "raise" ELSE "Port")

\* get_port called with a mapping the caller made for this call alone
PM_get_port(resource, P, D, ok) ==
    /\ UNCHANGED ioVars
    /\ get_port_body(resource, P, D, ok)

\* properties.update(portdialog_properties) acts on the object the parameter
\* is bound to: `passed` is that object after the call, `defaults` the one
\* object the def statement made for properties={}
get_port_given(resource, P, D, ok) ==
    /\ get_port_body(resource, P, D, ok)
    /\ pm' = [pm EXCEPT !.given = TRUE, !.passed = Update(P, D)]
    /\ UNCHANGED <<sock, conn, call, now, wr, plx, com, dev, qry, ctl>>

\* get_port(resource): the parameter is bound to the shared default object
get_port_omitted(resource, D, ok) ==
    /\ get_port_body(resource, pm.defaults, D, ok)
    /\ pm' = [pm EXCEPT !.given = FALSE, !.defaults = Update(@, D),
                        !.passed = Update(pm.defaults, D)]
    /\ UNCHANGED <<sock, conn, call, now, wr, plx, com, dev, qry, ctl>>

\* a remove_port that closes the Port it evicts
remove_port_closing(resource) ==
    /\ UNCHANGED ioVars
    /\ _ports' = DelPort(_ports, resource)
    /\ IF InPorts(_ports, resource) /\ PortOf(_ports, resource) # FalseEntry
       THEN \E c \in {PortClose(heap[PortOf(_ports, resource)], ctrl_open)} :
               /\ heap' = [heap EXCEPT ![PortOf(_ports, resource)] = c.p]
               /\ ctrl_open' = c.ctrl
       ELSE UNCHANGED <<heap, ctrl_open>>
    /\ UNCHANGED rm
    /\ last' = Call("remove_port", resource, EmptyDict, EmptyDict, "None")

\* PortManager.remove_port
remove_port(resource) ==
    /\ UNCHANGED ioVars
    /\ _ports' = DelPort(_ports, resource)
    /\ UNCHANGED <<heap, rm, ctrl_open>>
    /\ last' = Call("remove_port", resource, EmptyDict, EmptyDict, "None")

\* <PortType>.find_resources for one key of port_types: present is the set of
\* resources the operating system and the VISA backend can enumerate now,
\* rmok whether get_resourcemanager() returned a usable manager
find_resources(port_type, present, rmok) ==
    CASE port_type = "COM" ->
            {x \in present : PortClass(x) = "COM" /\ x \notin prologix_controller}
      [] port_type = "SOCKET" ->
            {x \in present : PortClass(x) = "SOCKET"}
      [] port_type = "GPIB" ->
            {x \in ResourcesAll : HasPrologix(x) /\ ControllerOf(x) \in prologix_controller}
            \cup (IF rmok THEN {x \in present : PortClass(x) = "GPIB" /\ ~HasPrologix(x)}
                  ELSE {})
      [] OTHER ->
            IF rmok THEN {x \in present : PortClass(x) = port_type} ELSE {}

\* the renaming get_resources_available applies to a requested kind
Alias(port_type) == IF port_type = "USB" THEN "USBTMC" ELSE port_type

\* the cached Port objects the first loop of get_resources_available marks
\* inactive: the loop stops at a False entry, which has no port_properties
\* (AttributeError)
MarkedInactive(h, d, kinds) ==
    LET bad  == {i \in DOMAIN d : d[i].port = FalseEntry}
        stop == IF bad = {} THEN Len(d) + 1
                ELSE CHOOSE i \in bad : \A j \in bad : i <= j
    IN  {d[i].port : i \in {j \in 1..(stop - 1) :
                               h[d[j].port].port_properties["type"] \in kinds}}

\* PortManager.get_resources_available(port_types): kinds is the list passed
get_resources_available(kinds, present) ==
    /\ UNCHANGED ioVars
    /\ \E searched \in {{Alias(k) : k \in kinds} \cap port_types} :
       \E g \in {IF searched \cap VisaClasses # {}
                 THEN get_resourcemanager(rm)
                 ELSE [rm |-> rm, ret |-> "False"]} :
       \E port_list \in {UNION {find_resources(k, present, g.ret = "rm") : k \in searched}} :
       \E marked \in {MarkedInactive(heap, _ports, kinds)} :
       \E h1 \in {[n \in DOMAIN heap |->
                      IF n \in marked
                      THEN [heap[n] EXCEPT !.port_properties["active"] = FALSE]
                      ELSE heap[n]]} :
           /\ heap' = h1
           /\ rm' = g.rm
           /\ UNCHANGED ctrl_open
           /\ IF \E i \in DOMAIN _ports : _ports[i].port = FalseEntry
              THEN /\ UNCHANGED _ports
                   /\ last' = [NoCall EXCEPT !.op = "get_resources_available", !.ret = "raise",
                                             !.kinds = kinds, !.found = port_list]
              ELSE LET keep(e) == ~( /\ h1[e.port].port_properties["type"] \in kinds
                                     /\ h1[e.port].port_properties["active"] = FALSE )
                       \* the last loop lists port_properties["resource"], which
                       \* is no key of a Port's properties (KeyError)
                       listed(e) == h1[e.port].port_properties["type"] \in kinds
                   IN  \E ports1 \in {SelectSeq(_ports, keep)} :
                       /\ _ports' = ports1
                       /\ last' = [NoCall EXCEPT !.op = "get_resources_available",
                                      !.ret = IF SelectSeq(ports1, listed) = << >>
                                              THEN "list" ELSE "raise",
                                      !.kinds = kinds, !.found = port_list,
                                      !.list = port_list]

\* PortManager.prepareRun
prepareRun ==
    /\ UNCHANGED ioVars
    /\ rm' = get_resourcemanager(rm).rm
    /\ UNCHANGED <<heap, _ports, ctrl_open>>
    /\ last' = Call("prepareRun", "", EmptyDict, EmptyDict, "None")

\* close_all_ports without the try/except: the loop ends at the first entry
\* whose close_port raises (a False entry or a Port whose close raises)
close_all_ports_unguarded(h, d, ctrl) ==
    LET raises(i) == \/ d[i].port = FalseEntry
                     \/ /\ h[d[i].port].port_properties["open"] = TRUE
                        /\ PortClose(h[d[i].port], ctrl).exc
        bad  == {i \in DOMAIN d : raises(i)}
        stop == IF bad = {} THEN Len(d) + 1 ELSE CHOOSE i \in bad : \A j \in bad : i <= j
        closing == {n \in DOMAIN h :
                       /\ \E i \in 1..stop : i \in DOMAIN d /\ d[i].port = n
                       /\ h[n].port_properties["open"] = TRUE}
    IN  [ heap |-> [n \in DOMAIN h |->
                       IF n \in closing THEN PortClose(h[n], ctrl).p ELSE h[n]],
          ctrl |-> (ctrl /\ \A n \in closing : PortClose(h[n], ctrl).ctrl) ]

\* PortManager.close_all_ports: close_port for each key of _ports, every
\* exception caught
close_all_ports(h, d, ctrl) ==
    LET closing == {n \in DOMAIN h :
                       /\ \E i \in DOMAIN d : d[i].port = n
                       /\ h[n].port_properties["open"] = TRUE}
    IN  [ heap |-> [n \in DOMAIN h |->
                       IF n \in closing THEN PortClose(h[n], ctrl).p ELSE h[n]],
          ctrl |-> (ctrl /\ \A n \in closing : PortClose(h[n], ctrl).ctrl) ]

\* PortManager.prepareStop
prepareStop ==
    /\ UNCHANGED ioVars
    /\ \E c \in {close_all_ports(heap, _ports, ctrl_open)} :
           /\ heap' = CloseRM(c.heap, rm)
           /\ ctrl_open' = c.ctrl
           /\ rm' = close_resourcemanager(rm)
           /\ UNCHANGED _ports
           /\ last' = Call("prepareStop", "", EmptyDict, EmptyDict, "None")

\* <Class>port.get_identification raises: "*IDN?" is written to and read from
\* the handle (idok: the instrument answers); PXIport.write_internal always
\* raises NotImplementedError; COMport reads the port list of the system
IdentificationRaises(p, ctrl, idok) ==
    CASE PortClass(p.port_ID) = "COM" -> FALSE
      [] PortClass(p.port_ID) = "PXI" -> TRUE
      [] p.port = "ctrl"              -> ~(ctrl /\ idok)
      [] OTHER                        -> ~(p.port = "live" /\ idok)

\* PortManager.get_identification once self._ports[resource] is the Port
\* object p (heap[n]): open, get_identification, close, close_resourcemanager
identify(resource, n, p, r, ctrl, ok, idok) ==
    LET ident(ret) == Call("get_identification", resource, EmptyDict, EmptyDict, ret)
    IN  \E o \in {PortOpen(p, r, ctrl, ok)} :
        /\ _ports' = SetPort(_ports, resource, n)
        /\ IF o.exc \/ IdentificationRaises(o.p, o.ctrl, idok)
           THEN /\ heap' = PutObject(heap, n, o.p)
                /\ rm' = o.rm /\ ctrl_open' = o.ctrl
                /\ last' = ident("raise")
           ELSE \E c \in {PortClose(o.p, o.ctrl)} :
                IF c.exc
                THEN /\ heap' = PutObject(heap, n, c.p)
                     /\ rm' = o.rm /\ ctrl_open' = c.ctrl
                     /\ last' = ident("raise")
                ELSE /\ heap' = CloseRM(PutObject(heap, n, c.p), o.rm)
                     /\ rm' = close_resourcemanager(o.rm) /\ ctrl_open' = c.ctrl
                     /\ last' = ident("str")

\* PortManager.get_identification
get_identification(resource, ok, idok) ==
    LET ident(ret) == Call("get_identification", resource, EmptyDict, EmptyDict, ret)
    IN  /\ UNCHANGED ioVars
        /\ IF InPorts(_ports, resource)
           THEN IF PortOf(_ports, resource) = FalseEntry
                THEN \* False.open() raises AttributeError
                     /\ UNCHANGED <<heap, _ports, rm, ctrl_open>>
                     /\ last' = ident("raise")
                ELSE \E n \in {PortOf(_ports, resource)} :
                     identify(resource, n, heap[n], rm, ctrl_open, ok, idok)
           ELSE \E g \in {Ports_get_port(resource, EmptyDict, rm, ctrl_open, ok)} :
                CASE g.ret = "raise" ->
                     /\ UNCHANGED <<heap, _ports>>
                     /\ rm' = g.rm /\ ctrl_open' = g.ctrl
                     /\ last' = ident("raise")
                  [] g.ret = "False" ->
                     \* _ports[resource] = False, then False.open() raises
                     /\ _ports' = SetPort(_ports, resource, FalseEntry)
                     /\ UNCHANGED heap
                     /\ rm' = g.rm /\ ctrl_open' = g.ctrl
                     /\ last' = ident("raise")
                  [] OTHER ->
                     /\ Len(heap) < MaxPorts
                     /\ identify(resource, Len(heap) + 1, g.p, g.rm, g.ctrl, ok, idok)

\* Port(ID) called by a driver directly: the object is not cached
Construct(ID) ==
    LET c == PortInit(ID)
    IN  /\ UNCHANGED ioVars
        /\ Len(heap) < MaxPorts
        /\ PortClass(ID) # "none"
        /\ IF c.exc
           THEN /\ UNCHANGED heap
                /\ last' = Call("Port", ID, EmptyDict, EmptyDict, "raise")
           ELSE /\ heap' = Append(heap, c.p)
                /\ last' = Call("Port", ID, EmptyDict, EmptyDict, "Port")
        /\ UNCHANGED <<_ports, rm, ctrl_open>>

\* port.open() called by a driver on the Port object heap[n]
Open(n, ok) ==
    LET o == PortOpen(heap[n], rm, ctrl_open, ok)
    IN  /\ UNCHANGED ioVars
        /\ heap' = [heap EXCEPT ![n] = o.p]
        /\ rm' = o.rm
        /\ ctrl_open' = o.ctrl
        /\ UNCHANGED _ports
        /\ last' = [Call("open", heap[n].port_ID, EmptyDict, EmptyDict,
                         IF o.exc THEN "raise" ELSE "None") EXCEPT !.ok = ok]

\* Ports.close_resourcemanager() called directly
CloseResourceManager ==
    /\ UNCHANGED ioVars
    /\ heap' = CloseRM(heap, rm)
    /\ rm' = close_resourcemanager(rm)
    /\ UNCHANGED <<_ports, ctrl_open>>
    /\ last' = Call("close_resourcemanager", "", EmptyDict, EmptyDict, "None")

\* port.close() called by a driver on the Port object heap[n]
Close(n) ==
    LET c == PortClose(heap[n], ctrl_open)
    IN  /\ UNCHANGED ioVars
        /\ heap' = [heap EXCEPT ![n] = c.p]
        /\ ctrl_open' = c.ctrl
        /\ UNCHANGED <<_ports, rm>>
        /\ last' = Call("close", heap[n].port_ID, EmptyDict, EmptyDict,
                        IF c.exc THEN "raise" ELSE "None")

\* port.update_properties(properties) called by a driver on heap[n]
UpdateProperties(n, properties) ==
    /\ UNCHANGED ioVars
    /\ heap' = [heap EXCEPT ![n] = update_properties(@, properties)]
    /\ UNCHANGED <<_ports, rm, ctrl_open>>
    /\ last' = Call("update_properties", heap[n].port_ID, properties, EmptyDict, "None")

\* port.initialize_port_properties() called by a driver on heap[n]
InitializePortProperties(n) ==
    /\ UNCHANGED ioVars
    /\ \E i \in {initialize_port_properties(heap[n])} :
          /\ heap' = [heap EXCEPT ![n] = i.p]
          /\ last' = Call("initialize_port_properties", heap[n].port_ID, EmptyDict,
                          EmptyDict, IF i.exc THEN "raise" ELSE "None")
    /\ UNCHANGED <<_ports, rm, ctrl_open>>

\* Ports.get_resourcemanager() (op "get_resourcemanager") or
\* PortManager.prepareRun() (op "prepareRun"), called while the VISA backend
\* is available or not
GetResourceManager(op, backend) ==
    /\ UNCHANGED ioVars
    /\ \E g \in {get_resourcemanager_with(rm, backend)} :
          /\ rm' = g.rm
          /\ last' = [Call(op, "", EmptyDict, EmptyDict,
                           IF op = "prepareRun" THEN "None" ELSE g.ret)
                        EXCEPT !.ok = backend]
    /\ UNCHANGED <<heap, _ports, ctrl_open>>

\* PortManager._instance (0 is None, otherwise the identity of the object),
\* the attribute initialized of that object, the number of objects
\* object.__new__ has made and the object the last PortManager() returned
NoPortManager ==
    [_instance |-> 0, initialized |-> FALSE, made |-> 0, returned |-> 0,
     given |-> TRUE, passed |-> << >>, defaults |-> << >>]

\* the PortManager after the first PortManager()
ThePortManager ==
    [_instance |-> 1, initialized |-> TRUE, made |-> 1, returned |-> 1,
     given |-> TRUE, passed |-> << >>, defaults |-> << >>]

\* an __init__ without its test
InitAlways(p) == TRUE

\* not hasattr(self, "initialized")
NotInitialized(p) == ~p.initialized

\* PortManager(): __new__ returns cls._instance, making it first if there is
\* none; __init__ registers the configured Prologix controllers (each a new
\* controller object whose serial port is closed) and binds _ports to an
\* empty OrderedDict
PortManager_new ==
    /\ pm' = IF pm._instance = 0
             THEN [pm EXCEPT !._instance = pm.made + 1, !.initialized = TRUE,
                             !.made = pm.made + 1, !.returned = pm.made + 1]
             ELSE [pm EXCEPT !.initialized = TRUE, !.returned = pm._instance]
    /\ IF NotInitialized(pm)
       THEN /\ _ports' = << >>
            /\ ctrl_open' = FALSE
       ELSE UNCHANGED <<_ports, ctrl_open>>
    /\ last' = Call("PortManager", "", EmptyDict, EmptyDict, "None")
    /\ UNCHANGED <<heap, rm, sockVars, wrVars, plx, com, dev, qry, ctl>>

-----------------------------------------------------------------------------
(* Strings that travel over a transport are sequences of characters *)

\* Python's None where a termination string is expected
None == <<"None">>

Whitespace == {" ", "\t", "\n", "\r"}

Range(f) == {f[i] : i \in DOMAIN f}

\* str.rstrip(chars)
RECURSIVE rstrip(_, _)
rstrip(str, chars) ==
    IF str # << >> /\ str[Len(str)] \in chars
    THEN rstrip(SubSeq(str, 1, Len(str) - 1), chars)
    ELSE str

\* str.find(sub): the lowest index (from 0) where sub occurs, -1 if nowhere
find(str, sub) ==
    LET at == {i \in 0..(Len(str) - Len(sub)) : SubSeq(str, i + 1, i + Len(sub)) = sub}
    IN  IF at = {} THEN -1 ELSE CHOOSE i \in at : \A j \in at : i <= j

\* str[:n] and str[n:]
Take(str, n) == SubSeq(str, 1, n)
Drop(str, n) == SubSeq(str, n + 1, Len(str))

-----------------------------------------------------------------------------
(* SOCKETport *)

\* bytes in the connection and in the buffer together
MaxBytes == 6

\* PortType.properties as far as SOCKETport reads them; timeout counts
\* ticks of the clock
timeout == 2
SocketProperties ==
    [rstrip |-> TRUE, raw_read |-> FALSE, timeout |-> timeout,
     SOCKET_EOLwrite |-> None, SOCKET_EOLread |-> None]

NoSock == [port_properties |-> EmptyDict, buffer |-> << >>,
           write_termination |-> << >>, read_termination |-> << >>]
NoConn == [out |-> << >>, in |-> << >>]
NoRead == [pc |-> "idle", digits |-> 0, elapsed |-> 0, ret |-> "None", answer |-> << >>]

\* SOCKETport.open_internal on a port with these properties, connected
SocketOpened(properties) ==
    [ port_properties |-> properties,
      buffer |-> << >>,
      write_termination |-> IF properties["SOCKET_EOLwrite"] # None
                            THEN properties["SOCKET_EOLwrite"] ELSE << >>,
      read_termination |-> IF properties["SOCKET_EOLread"] # None
                           THEN properties["SOCKET_EOLread"] ELSE << >> ]

\* SOCKETport.read_internal from the head of its loop to the point where it
\* returns, raises TimeoutError or waits in recv: inb is what recv can deliver
\* now, late says that the timeout has passed when the loop tests it.
\* Outcome: [pc ("return", "raise" or "recv"), answer, buffer, inb]
RECURSIVE read_internal(_, _, _, _, _)
read_internal(buffer, inb, digits, eol, late) ==
    IF digits > 0
    THEN IF digits > Len(buffer)
         THEN IF inb = << >>
              THEN [pc |-> "recv", answer |-> << >>, buffer |-> buffer, inb |-> inb]
              ELSE \* read_chunk(missing_bytes): one recv of at most so many bytes
                   LET n == IF digits - Len(buffer) < Len(inb)
                            THEN digits - Len(buffer) ELSE Len(inb)
                   IN  [pc |-> "return", answer |-> buffer \o Take(inb, n),
                        buffer |-> << >>, inb |-> Drop(inb, n)]
         ELSE [pc |-> "return", answer |-> Take(buffer, digits),
               buffer |-> Drop(buffer, digits), inb |-> inb]
    ELSE IF find(buffer, eol) >= 0
         THEN LET idx == find(buffer, eol)
              IN  [pc |-> "return",
                   answer |-> rstrip(Take(buffer, idx + Len(eol)), Range(eol)),
                   buffer |-> Drop(buffer, idx + Len(eol)), inb |-> inb]
         ELSE IF inb = << >>
              THEN [pc |-> "recv", answer |-> << >>, buffer |-> buffer, inb |-> inb]
              ELSE IF late
                   THEN [pc |-> "raise", answer |-> << >>,
                         buffer |-> buffer \o inb, inb |-> << >>]
                   ELSE read_internal(buffer \o inb, << >>, digits, eol, late)

\* Port.read around read_internal: r is read_internal's outcome
ReadOutcome(r, digits, elapsed) ==
    /\ sock' = [sock EXCEPT !.buffer = r.buffer]
    /\ conn' = [conn EXCEPT !.in = r.inb]
    /\ call' = [ pc |-> IF r.pc = "recv" THEN "recv" ELSE "idle",
                 digits |-> digits,
                 elapsed |-> elapsed,
                 ret |-> CASE r.pc = "return" -> "str"
                           [] r.pc = "raise" -> "raise"
                           [] OTHER -> "None",
                 answer |-> IF /\ r.pc = "return"
                              /\ sock.port_properties["rstrip"]
                              /\ ~sock.port_properties["raw_read"]
                            THEN rstrip(r.answer, Whitespace) ELSE r.answer ]

\* port.write(cmd): nothing is sent for the empty command; the default delay
\* of 0.0 never makes write_internal sleep
SockWrite(cmd) ==
    /\ call.pc = "idle"
    /\ Len(conn.out) + Len(conn.in) + Len(sock.buffer)
         + Len(cmd) + Len(sock.write_termination) <= MaxBytes
    /\ conn' = IF cmd = << >> THEN conn
               ELSE [conn EXCEPT !.out = @ \o cmd \o sock.write_termination]
    /\ last' = Call("write", "", EmptyDict, EmptyDict, "None")
    /\ UNCHANGED <<pmVars, xVars, sock, call, now, wr, plx>>

\* the echo server: recv(1024) delivers the first k bytes sent to it, sendall
\* sends them back
PeerEcho(k) ==
    /\ k \in 1..Len(conn.out)
    /\ conn' = [out |-> Drop(conn.out, k), in |-> conn.in \o Take(conn.out, k)]
    /\ last' = Call("echo", "", EmptyDict, EmptyDict, "None")
    /\ UNCHANGED <<pmVars, xVars, sock, call, now, wr, plx>>

\* port.read(digits) is called
SockRead(digits) ==
    /\ call.pc = "idle"
    /\ \E r \in {read_internal(sock.buffer, conn.in, digits, sock.write_termination, FALSE)} :
          ReadOutcome(r, digits, 0)
    /\ last' = Call("read", "", EmptyDict, EmptyDict, "None")
    /\ UNCHANGED <<pmVars, xVars, now, wr, plx>>

\* recv returns while read_internal waits in it: bytes have arrived, dt ticks
\* after the previous test of the clock
RecvData(dt) ==
    /\ call.pc = "recv"
    /\ conn.in # << >>
    /\ \E r \in {read_internal(sock.buffer, conn.in, call.digits, sock.write_termination,
                              call.elapsed + dt > sock.port_properties["timeout"])} :
          ReadOutcome(r, call.digits, call.elapsed + dt)
    /\ last' = Call("recv", "", EmptyDict, EmptyDict, "None")
    /\ UNCHANGED <<pmVars, xVars, now, wr, plx>>

\* recv gives up after the 0.1 s of settimeout: socket.timeout leaves
\* read_internal and read
RecvTimeout ==
    /\ call.pc = "recv"
    /\ conn.in = << >>
    /\ call' = [call EXCEPT !.pc = "idle", !.ret = "raise", !.answer = << >>]
    /\ last' = Call("recv", "", EmptyDict, EmptyDict, "raise")
    /\ UNCHANGED <<pmVars, xVars, sock, conn, now, wr, plx>>

-----------------------------------------------------------------------------
(* The write delay of each Port class *)

\* ticks of the clock in one behaviour, and the largest delay
MaxTime == 3
MaxDelay == 2

\* the classes a Port object can be of (the constructor of ASRLport raises:
\* port_types has no key "ASRL")
WriterClasses == {"GPIB", "PXI", "USBTMC", "TCPIP", "SOCKET", "COM"}

\* the times of the last two transport writes; -1: there was none
NoWrites == [prev |-> -1, last |-> -1]

\* raw_write is the property of that name; in_raw says that the call in
\* progress is inside COMport.write_raw_internal, whose local variable
\* current holds the raw_write to set back
NoWriter == [cls |-> "none", delay |-> 0, stamp |-> 0, pc |-> "idle",
             wake |-> 0, writes |-> NoWrites,
             raw_write |-> FALSE, in_raw |-> FALSE, current |-> FALSE]

\* a Port of class cls, constructed and opened at time 0: stamp is
\* self.actualwritetime (Port.__init__) or self.last_writetime
\* (SOCKETport.open_internal)
Writer(cls, delay) == [NoWriter EXCEPT !.cls = cls, !.delay = delay]

\* self.port.write(...) / sendall(...) at time t
TransportWrite(w, t) ==
    [w EXCEPT !.writes = [prev |-> w.writes.last, last |-> t]]

\* time passes
Tick ==
    /\ now < MaxTime
    /\ now' = now + 1
    /\ last' = Call("tick", "", EmptyDict, EmptyDict, "None")
    /\ UNCHANGED <<pmVars, xVars, sockVars, wr, plx>>

\* <Class>port.write_internal up to its return or to the point where it waits
write_internal(w, t) ==
    CASE w.cls \in {"GPIB", "COM"} ->
            \* while perf_counter() - actualwritetime < delay: sleep(0.01)
            IF t - w.stamp < w.delay
            THEN [w EXCEPT !.pc = "wait", !.wake = w.stamp + w.delay]
            ELSE [TransportWrite(w, t) EXCEPT !.stamp = t]
      [] w.cls = "PXI" ->
            IF t - w.stamp < w.delay
            THEN [w EXCEPT !.pc = "wait", !.wake = w.stamp + w.delay]
            ELSE [w EXCEPT !.stamp = t, !.pc = "raise"]
      [] w.cls = "TCPIP" ->
            \* self.port.write(cmd); time.sleep(delay)
            IF w.delay > 0
            THEN [TransportWrite(w, t) EXCEPT !.pc = "sleep", !.wake = t + w.delay]
            ELSE TransportWrite(w, t)
      [] w.cls = "USBTMC" ->
            TransportWrite(w, t)
      [] OTHER ->
            \* SOCKET: sleep(delay - (time() - last_writetime)), then sendall
            IF t - w.stamp < w.delay
            THEN [w EXCEPT !.pc = "wait", !.wake = w.stamp + w.delay]
            ELSE [TransportWrite(w, t) EXCEPT !.stamp = t]

\* Port.write with every command passed on to write_internal
Port_write_always(w, t, empty) == write_internal(w, t)

\* Port.write: if cmd != "": self.write_internal(cmd); empty says cmd == ""
Port_write(w, t, empty) == IF empty THEN w ELSE write_internal(w, t)

\* write_raw_internal: COMport sets raw_write and calls write, every other
\* class falls back to write
write_raw_internal(w, t) ==
    IF w.cls = "COM"
    THEN Port_write([w EXCEPT !.current = w.raw_write, !.raw_write = TRUE,
                              !.in_raw = TRUE], t, FALSE)
    ELSE Port_write(w, t, FALSE)

\* Port.write_raw: if cmd != "": self.write_raw_internal(cmd)
Port_write_raw(w, t, empty) == IF empty THEN w ELSE write_raw_internal(w, t)

\* write has returned into COMport.write_raw_internal: raw_write is set back
WriteReturned(w) ==
    IF w.pc = "idle" /\ w.in_raw
    THEN [w EXCEPT !.raw_write = w.current, !.in_raw = FALSE]
    ELSE w

\* the command of a call as recorded in last.res
CmdOf(empty) == IF empty THEN "empty" ELSE "cmd"

\* port.write(cmd), empty says cmd == ""
Write(empty) ==
    /\ wr.pc = "idle"
    /\ \E w \in {Port_write(wr, now, empty)} :
          /\ wr' = [w EXCEPT !.pc = IF @ = "raise" THEN "idle" ELSE @]
          /\ last' = Call("write", CmdOf(empty), EmptyDict, EmptyDict,
                          IF w.pc = "raise" THEN "raise" ELSE "None")
    /\ UNCHANGED <<pmVars, xVars, sockVars, now, plx>>

\* port.write_raw(cmd), empty says cmd == b""
WriteRaw(empty) ==
    /\ wr.pc = "idle"
    /\ \E w \in {Port_write_raw(wr, now, empty)} :
          /\ wr' = WriteReturned([w EXCEPT !.pc = IF @ = "raise" THEN "idle" ELSE @])
          /\ last' = Call("write_raw", CmdOf(empty), EmptyDict, EmptyDict,
                          IF w.pc = "raise" THEN "raise" ELSE "None")
    /\ UNCHANGED <<pmVars, xVars, sockVars, now, plx>>

\* the wait before the transport write is over: write_internal goes on
WaitOver ==
    /\ wr.pc = "wait"
    /\ now >= wr.wake
    /\ \E w \in {write_internal([wr EXCEPT !.pc = "idle"], now)} :
          /\ wr' = WriteReturned([w EXCEPT !.pc = IF @ = "raise" THEN "idle" ELSE @])
          /\ last' = Call("write", "", EmptyDict, EmptyDict,
                          IF w.pc = "raise" THEN "raise" ELSE "None")
    /\ UNCHANGED <<pmVars, xVars, sockVars, now, plx>>

\* time.sleep(delay) after the transport write is over: write returns
SleepOver ==
    /\ wr.pc = "sleep"
    /\ now >= wr.wake
    /\ wr' = [wr EXCEPT !.pc = "idle"]
    /\ last' = Call("write", "", EmptyDict, EmptyDict, "None")
    /\ UNCHANGED <<pmVars, xVars, sockVars, now, plx>>

-----------------------------------------------------------------------------
(* COMport *)

\* bytes waiting in the serial input buffer
MaxRx == 3

\* the bytes the device sends; "0xFF" stands for a byte that is no ASCII
BytesCom == {"A", " ", "\n", "0xFF"}

\* PortType.properties and COM's own as far as COMport.read reads them
ComProperties ==
    [open |-> TRUE, Exception |-> TRUE, EOL |-> <<"\n">>, EOLread |-> None,
     EOLwrite |-> None, rstrip |-> TRUE, raw_read |-> FALSE, raw_write |-> FALSE,
     encoding |-> "latin-1"]

\* no COMport is read from
NoCom == [port_properties |-> EmptyDict, port |-> "closed", rx |-> << >>,
          digits |-> 0, received |-> << >>, eol_found |-> FALSE,
          ret |-> "None", answer |-> << >>,
          cmd |-> [kind |-> "str", data |-> << >>], tx |-> << >>]

\* a COMport with these properties, opened
ComOpened(properties) ==
    [NoCom EXCEPT !.port_properties = properties, !.port = "live"]

\* line[-n:] and line[:-n] of Python
LastN(line, n) ==
    IF n = 0 \/ n >= Len(line) THEN line ELSE SubSeq(line, Len(line) - n + 1, Len(line))
DropLastN(line, n) ==
    IF n = 0 \/ n >= Len(line) THEN << >> ELSE SubSeq(line, 1, Len(line) - n)

\* COMport.readline: self.port.read(1) delivers the bytes of rx one by one and
\* nothing once rx is empty (the serial timeout).
\* Outcome: [payload, eol_found, line (every byte read), rx (what is left)]
RECURSIVE readline(_, _, _)
readline(line, rx, EOL) ==
    IF rx = << >>
    THEN [payload |-> DropLastN(line, Len(EOL)), eol_found |-> FALSE,
          line |-> line, rx |-> rx]
    ELSE IF LastN(Append(line, Head(rx)), Len(EOL)) = EOL
         THEN [payload |-> DropLastN(Append(line, Head(rx)), Len(EOL)),
               eol_found |-> TRUE, line |-> Append(line, Head(rx)), rx |-> Tail(rx)]
         ELSE readline(Append(line, Head(rx)), Tail(rx), EOL)

\* bytes.decode(encoding) raises
DecodeRaises(bytes, encoding) ==
    encoding = "ascii" /\ "0xFF" \in Range(bytes)

\* COMport.read_internal(digits) and Port.read around it, on an open serial
\* port.  Outcome: the COMport after the call
com_read(c, digits) ==
    LET props == c.port_properties
        EOL   == IF props["EOLread"] # None THEN props["EOLread"] ELSE props["EOL"]
        n     == IF digits < Len(c.rx) THEN digits ELSE Len(c.rx)
    IN  Only({ IF ~props["raw_read"] /\ DecodeRaises(r.payload, props["encoding"])
               THEN \* the decode error is re-raised
                    [c EXCEPT !.rx = r.rx, !.digits = digits, !.received = r.line,
                              !.eol_found = r.eol_found,
                              !.ret = "decode error", !.answer = << >>]
               ELSE IF /\ ~props["raw_read"] /\ r.payload = << >>
                       /\ ~r.eol_found /\ props["Exception"] = TRUE
               THEN \* self.close(), then the exception "does not respond"
                    [c EXCEPT !.rx = << >>, !.digits = digits, !.received = r.line,
                              !.eol_found = r.eol_found,
                              !.port = "closed", !.port_properties["open"] = FALSE,
                              !.ret = "no response", !.answer = << >>]
               ELSE [c EXCEPT !.rx = r.rx, !.digits = digits, !.received = r.line,
                              !.eol_found = r.eol_found,
                              !.ret = IF props["raw_read"] THEN "bytes" ELSE "str",
                              !.answer = IF props["rstrip"] /\ ~props["raw_read"]
                                         THEN rstrip(r.payload, Whitespace)
                                         ELSE r.payload] :
               r \in { IF digits = 0 THEN readline(<< >>, c.rx, EOL)
                       ELSE \* answer = self.port.read(digits); EOLfound = True
                            [payload |-> Take(c.rx, n), eol_found |-> TRUE,
                             line |-> Take(c.rx, n), rx |-> Drop(c.rx, n)] } })

\* port.read(digits) on the COMport; a serial port that is not open raises
\* PortNotOpenError from self.port.read
ComRead(digits) ==
    /\ com' = IF com.port = "live" THEN com_read(com, digits)
              ELSE [com EXCEPT !.digits = digits, !.received = << >>,
                               !.eol_found = FALSE, !.ret = "not open", !.answer = << >>]
    /\ last' = Call("com_read", "", EmptyDict, EmptyDict, "None")
    /\ UNCHANGED <<pmVars, sockVars, wrVars, plx, pm, dev, qry, ctl>>

\* the commands written: a str or a bytes object (cmd of the last write call
\* and tx, the bytes that call handed to serial.write, are kept in com)
CmdsCom == { [kind |-> "str", data |-> << >>], [kind |-> "str", data |-> <<"A">>],
             [kind |-> "bytes", data |-> << >>], [kind |-> "bytes", data |-> <<"A">>] }

\* COMport.write_internal on an open serial port: the EOL is appended on
\* both branches; str + bytes raises TypeError on the raw_write branch.
\* Outcome: the COMport after the call
com_write_internal(c, cmd) ==
    LET props == c.port_properties
        eol   == IF props["EOLwrite"] # None THEN props["EOLwrite"] ELSE props["EOL"]
    IN  IF props["raw_write"] /\ cmd.kind = "str"
        THEN [c EXCEPT !.ret = "TypeError", !.tx = << >>]
        ELSE [c EXCEPT !.ret = "None", !.tx = cmd.data \o eol]

\* Port.write: nothing is done for the empty command; a serial port that is
\* not open raises from self.port.write
com_write(c, cmd) ==
    IF cmd.data = << >> THEN [c EXCEPT !.ret = "None", !.tx = << >>]
    ELSE IF c.port # "live" THEN [c EXCEPT !.ret = "not open", !.tx = << >>]
    ELSE com_write_internal(c, cmd)

\* Port.write_raw and COMport.write_raw_internal: raw_write is set, write is
\* called, raw_write is set back if write returned
com_write_raw(c, cmd) ==
    IF cmd.data = << >> THEN [c EXCEPT !.ret = "None", !.tx = << >>]
    ELSE Only({ IF w.ret = "None"
                THEN [w EXCEPT !.port_properties["raw_write"] =
                                   c.port_properties["raw_write"]]
                ELSE w :
                w \in {com_write([c EXCEPT !.port_properties["raw_write"] = TRUE], cmd)} })

\* port.write(cmd) on the COMport
ComWrite(cmd) ==
    /\ com' = [com_write(com, cmd) EXCEPT !.cmd = cmd]
    /\ last' = Call("com_write", "", EmptyDict, EmptyDict, "None")
    /\ UNCHANGED <<pmVars, sockVars, wrVars, plx, pm, dev, qry, ctl>>

\* port.write_raw(cmd) on the COMport
ComWriteRaw(cmd) ==
    /\ com' = [com_write_raw(com, cmd) EXCEPT !.cmd = cmd]
    /\ last' = Call("com_write_raw", "", EmptyDict, EmptyDict, "None")
    /\ UNCHANGED <<pmVars, sockVars, wrVars, plx, pm, dev, qry, ctl>>

\* the device sends one byte
ComSend(b) ==
    /\ com.port = "live"
    /\ Len(com.rx) < MaxRx
    /\ com' = [com EXCEPT !.rx = Append(@, b)]
    /\ last' = Call("com_send", "", EmptyDict, EmptyDict, "None")
    /\ UNCHANGED <<pmVars, sockVars, wrVars, plx, pm, dev, qry, ctl>>

\* port.open() on the COMport: the serial port is opened, or closed and opened
\* again
ComOpen ==
    /\ com' = [com EXCEPT !.port = "live", !.port_properties["open"] = TRUE,
                          !.rx = << >>]
    /\ last' = Call("com_open", "", EmptyDict, EmptyDict, "None")
    /\ UNCHANGED <<pmVars, sockVars, wrVars, plx, pm, dev, qry, ctl>>

-----------------------------------------------------------------------------
(* EmptyDevice: the saved GUI parameters *)

\* a parameter value: a scalar or a list (the options the user chooses from)
V(x) == [list |-> FALSE, items |-> <<x>>]
L(xs) == [list |-> TRUE, items |-> xs]

\* what set_GUIparameter of the driver returns; at most one default is a list
DefaultsDev ==
    { [x |-> V("1"), y |-> V("2")],
      [x |-> V("1"), listproperty |-> L(<<"first", "second">>)],
      [x |-> V("1"), listproperty |-> L(<< >>)] }

\* EmptyDevice.__init__: _latest_parameters is None (is_set = FALSE).
\* passed_parameters is what get_GUIparameter received last, parameters the
\* argument of the last set_parameters and ret how the last call ended
NoDevice == [default_params |-> EmptyDict, is_set |-> FALSE,
             _latest_parameters |-> EmptyDict, passed_parameters |-> EmptyDict,
             parameters |-> << >>, ret |-> "None"]

Device(defaults) == [NoDevice EXCEPT !.default_params = defaults]

\* update_gui_parameters(parameters): get_GUIparameter is called with a
\* non-empty mapping, set_GUIparameter gives the returned defaults
update_gui_parameters(d, parameters) ==
    IF parameters # EmptyDict THEN [d EXCEPT !.passed_parameters = parameters] ELSE d

\* default[0] of every list-valued default
FirstElements(params) ==
    [k \in DOMAIN params |->
        IF params[k].list THEN V(params[k].items[1]) ELSE params[k]]

\* default[0] raises IndexError
HasEmptyList(params) ==
    \E k \in DOMAIN params : params[k].list /\ params[k].items = << >>

\* the previous Device and Port copied over
CopyPrevious(params, previous) ==
    Update(params, [k \in {"Device", "Port"} \cap DOMAIN previous |-> previous[k]])

\* EmptyDevice.reset_latest_parameters
reset_latest_parameters(d) ==
    LET previous == IF d.is_set THEN d._latest_parameters ELSE EmptyDict
        defaults == d.default_params
    IN  IF HasEmptyList(defaults)
        THEN [d EXCEPT !.is_set = TRUE, !._latest_parameters = defaults,
                       !.ret = "IndexError"]
        ELSE [d EXCEPT !.is_set = TRUE,
                       !._latest_parameters = CopyPrevious(FirstElements(defaults), previous),
                       !.ret = "None"]

\* the keys set_parameters accepts
supported_parameters(d) ==
    DOMAIN d._latest_parameters \cup {"Port", "Label", "Channel", "Device"}

\* the loop of set_parameters over parameters.items(), items in the order of
\* the mapping; supported is computed once before the loop
RECURSIVE set_items(_, _, _)
set_items(d, items, supported) ==
    IF items = << >> THEN d
    ELSE IF Head(items).key \in supported
         THEN set_items([d EXCEPT !._latest_parameters =
                                      Update(@, Head(items).key :> Head(items).value)],
                        Tail(items), supported)
         ELSE [d EXCEPT !.ret = "ValueError"]

\* EmptyDevice.set_parameters(parameters), parameters as its sequence of items
set_parameters(d, items) ==
    LET r == IF d.is_set THEN [d EXCEPT !.ret = "None"] ELSE reset_latest_parameters(d)
    IN  IF r.ret # "None" THEN r
        ELSE IF items = << >> THEN r
        ELSE Only({ IF w.ret = "None"
                    THEN update_gui_parameters(w, w._latest_parameters)
                    ELSE w :
                    w \in {set_items(r, items, supported_parameters(r))} })

\* EmptyDevice.get_parameters
get_parameters(d) ==
    IF d.is_set THEN [d EXCEPT !.ret = "None"] ELSE reset_latest_parameters(d)

\* the mappings passed to set_parameters, as sequences of items
Item(k, v) == [key |-> k, value |-> v]
ParamsDev ==
    { << >>,
      <<Item("x", V("99"))>>,
      <<Item("Port", V("COM007"))>>,
      <<Item("Device", V("MySuperDevice"))>>,
      <<Item("Label", V("A"))>>,
      <<Item("nonsense", V("42"))>>,
      <<Item("x", V("5")), Item("nonsense", V("42"))>> }

\* the mapping with these items
AsDict(items) ==
    [k \in {items[i].key : i \in DOMAIN items} |->
        items[CHOOSE i \in DOMAIN items :
                  /\ items[i].key = k
                  /\ \A j \in DOMAIN items : items[j].key = k => j <= i].value]

DevReset ==
    /\ dev' = reset_latest_parameters(dev)
    /\ last' = Call("reset_latest_parameters", "", EmptyDict, EmptyDict, "None")
    /\ UNCHANGED <<pmVars, sockVars, wrVars, plx, pm, com, qry, ctl>>

DevSetParameters(items) ==
    /\ dev' = [set_parameters(dev, items) EXCEPT !.parameters = items]
    /\ last' = Call("set_parameters", "", EmptyDict, EmptyDict, "None")
    /\ UNCHANGED <<pmVars, sockVars, wrVars, plx, pm, com, qry, ctl>>

DevGetParameters ==
    /\ dev' = get_parameters(dev)
    /\ last' = Call("get_parameters", "", EmptyDict, EmptyDict, "None")
    /\ UNCHANGED <<pmVars, sockVars, wrVars, plx, pm, com, qry, ctl>>

-----------------------------------------------------------------------------
(* Port.query called by two threads on one Port *)

\* the threads and the commands they send
Callers == {1, 2}
CmdsQuery == {"*IDN?", "MEAS?"}

\* query() calls per thread
MaxCalls == 2

\* a command on the line or its response: the thread whose write it stems
\* from, the number of that thread's call and the command; by = 0 is none
NoMessage == [by |-> 0, call |-> 0, cmd |-> ""]

\* pc: where each thread is in query ("idle": not in a call, "written":
\* self.write(cmd) has returned); calls: the query calls it has begun;
\* tx: what the transport has sent; rx: the responses waiting to be read;
\* got: what the thread's last completed query returned
NoQuery == [pc |-> [t \in Callers |-> "idle"], calls |-> [t \in Callers |-> 0],
            tx |-> << >>, rx |-> << >>, got |-> [t \in Callers |-> NoMessage]]

\* a query that reads without having written
query_reads(pc) == "read"

\* Port.query: the step a thread at pc takes next
query(pc) == IF pc = "idle" THEN "write" ELSE "read"

\* self.write(cmd) of thread t's query(cmd): the device answers every command
QueryWrite(t, cmd) ==
    /\ query(qry.pc[t]) = "write"
    /\ qry.calls[t] < MaxCalls
    /\ \E m \in {[by |-> t, call |-> qry.calls[t] + 1, cmd |-> cmd]} :
          qry' = [qry EXCEPT !.pc[t] = "written", !.calls[t] = @ + 1,
                             !.tx = Append(@, m), !.rx = Append(@, m)]
    /\ last' = Call("query_write", cmd, EmptyDict, EmptyDict, "None")
    /\ UNCHANGED <<pmVars, sockVars, wrVars, plx, pm, com, dev, ctl>>

\* return self.read(digits) of thread t's query: the next response on the
\* line, or none (the read times out)
QueryRead(t) ==
    /\ query(qry.pc[t]) = "read"
    /\ qry' = [qry EXCEPT !.pc[t] = "idle",
                          !.got[t] = IF qry.rx = << >> THEN NoMessage ELSE Head(qry.rx),
                          !.rx = IF qry.rx = << >> THEN << >> ELSE Tail(qry.rx)]
    /\ last' = [Call("query_read", "", EmptyDict, EmptyDict,
                      IF qry.rx = << >> THEN "timeout" ELSE "str")
                   EXCEPT !.ok = (t = 1)]  \* ok tells the thread
    /\ UNCHANGED <<pmVars, sockVars, wrVars, plx, pm, com, dev, ctl>>

-----------------------------------------------------------------------------
(* The registry of Prologix controllers and the discovery of COM and GPIB *)

\* the addresses controllers are registered with, the serial devices the
\* operating system can list and the resources VISA lists for "GPIB?*"
AddressesCtl == {"COM9", "COM10"}
SerialDevices == {"COM1", "COM9", "COM10"}
VisaGPIB == {"GPIB0::1::INSTR", "GPIB0::INTFC"}

\* range(1, 31, 1) of PrologixGPIBcontroller.list_resources
NrAddresses == 30

\* "GPIB::%i::Prologix@%s" % (i, address), and a resource string of VISA
Synthetic(i, address) == <<"GPIB", i, "Prologix@", address>>
Visa(x) == <<"VISA", 0, "", x>>

\* prologix_controller: the keys of the dict; the controller under key
\* address has _address = str(address), the key itself.  com and gpib are what
\* the last COM and the last GPIB discovery returned
NoControllers == [prologix_controller |-> {}, com |-> {}, gpib |-> {}]

\* COM discovery that leaves the addresses of the controllers in
COM_lists_all(controllers, present) == present

\* COM.find_resources_internal: present is what comports() lists
COM_find_resources_internal(controllers, present) ==
    {id_str \in present : id_str \notin controllers}

\* PrologixGPIBcontroller.list_resources
list_resources(address) == {Synthetic(i, address) : i \in 1..NrAddresses}

\* GPIB.find_resources_internal: rmok says get_resourcemanager() is truthy
GPIB_find_resources_internal(controllers, present, rmok) ==
    UNION {list_resources(address) : address \in controllers}
    \cup (IF rmok THEN {Visa(x) : x \in {y \in present : y # "GPIB0::INTFC"}} ELSE {})

AddController(address) ==
    /\ ctl' = [ctl EXCEPT !.prologix_controller = @ \cup {address}]
    /\ last' = Call("add_prologix_controller", address, EmptyDict, EmptyDict, "None")
    /\ UNCHANGED <<pmVars, sockVars, wrVars, plx, pm, com, dev, qry>>

RemoveController(address) ==
    /\ ctl' = [ctl EXCEPT !.prologix_controller = @ \ {address}]
    /\ last' = Call("remove_prologix_controller", address, EmptyDict, EmptyDict, "None")
    /\ UNCHANGED <<pmVars, sockVars, wrVars, plx, pm, com, dev, qry>>

\* port_types["COM"].find_resources()
FindCOM(present) ==
    /\ ctl' = [ctl EXCEPT !.com = COM_find_resources_internal(ctl.prologix_controller, present)]
    /\ last' = Call("find_COM", "", EmptyDict, EmptyDict, "list")
    /\ UNCHANGED <<pmVars, sockVars, wrVars, plx, pm, com, dev, qry>>

\* port_types["GPIB"].find_resources()
FindGPIB(present, rmok) ==
    /\ ctl' = [ctl EXCEPT !.gpib =
                   GPIB_find_resources_internal(ctl.prologix_controller, present, rmok)]
    /\ last' = Call("find_GPIB", "", EmptyDict, EmptyDict, "list")
    /\ UNCHANGED <<pmVars, sockVars, wrVars, plx, pm, com, dev, qry>>

-----------------------------------------------------------------------------
(* PrologixGPIBcontroller *)

\* the GPIB addresses of the devices behind the controller
AddrsPlx == {5, 7}

\* the device commands written
CmdsPlx == {"*IDN?", "MEAS?", "V+1", "ESC+"}

\* chr(27); "\r" is chr(13), "\n" chr(10), "+" chr(43)
ESC == "ESC"

\* the characters of a command
Text(cmd) ==
    CASE cmd = "*IDN?" -> <<"*", "I", "D", "N", "?">>
      [] cmd = "MEAS?" -> <<"M", "E", "A", "S", "?">>
      [] cmd = "V+1"   -> <<"V", "+", "1">>
      [] cmd = "ESC+"  -> <<ESC, "+">>
      [] OTHER         -> << >>

\* str.replace(old, new) for a character old: a new string, str is unchanged
RECURSIVE replace(_, _, _)
replace(str, old, new) ==
    IF str = << >> THEN << >>
    ELSE (IF Head(str) = old THEN new ELSE <<Head(str)>>) \o replace(Tail(str), old, new)

\* msg of PrologixGPIBcontroller.write for a device command: the results of
\* the four cmd.replace(...) statements are bound to no name, so cmd is as it
\* was passed when "\n" is appended
device_msg(cmd) == cmd \o <<"\n">>

\* _current_gpib_ID and bus are 0 while no address is set
NoController ==
    [ _current_gpib_ID |-> 0,     \* self._current_gpib_ID, None at first
      ID_port_properties |-> {},  \* the keys of self.ID_port_properties
      bus |-> 0,                  \* the address the controller talks to
      target |-> 0,               \* the address of the previous addressed call
      sent |-> << >>,             \* the lines the last call wrote to the serial port
      pending |-> {},             \* the devices with an answer to read
      answer |-> 0,               \* the device whose answer the last read returned
      msg |-> << >> ]             \* the device message the last write put on the line

\* a line written to the serial port: the command and, for ++addr, the address
Line(cmd, n) == <<cmd, n>>

\* the controller receives the lines: ++addr sets the bus address, a device
\* command goes to the addressed device, which then has an answer
Received(c, lines) ==
    LET addrs == {i \in DOMAIN lines : lines[i][1] = "++addr"}
        bus   == IF addrs = {} THEN c.bus
                 ELSE lines[CHOOSE i \in addrs : \A j \in addrs : j <= i][2]
        cmds  == {i \in DOMAIN lines : lines[i][1] \in CmdsPlx}
    IN  [c EXCEPT !.bus = bus,
                  !.pending = IF cmds # {} /\ bus # 0 THEN @ \cup {bus} ELSE @]

\* the lines PrologixGPIBcontroller.open writes to set the controller up
SetupLines ==
    << Line("++ifc", 0), Line("++mode", 0), Line("++eos", 0), Line("++eoi", 0),
       Line("++auto", 0), Line("++read_tmo_ms", 0) >>

\* GPIBport.open -> PrologixGPIBcontroller.open(port_properties) for the
\* device at address ID; ok: the serial port can be opened
PlxOpen(ID, ok) ==
    /\ plx' = IF ctrl_open \/ ok
              THEN [plx EXCEPT !.ID_port_properties = @ \cup {ID},
                               !.sent = SetupLines]
              ELSE [plx EXCEPT !.ID_port_properties = @ \cup {ID}, !.sent = << >>]
    /\ ctrl_open' = (ctrl_open \/ ok)
    /\ last' = Call("plx_open", "", EmptyDict, EmptyDict,
                    IF ctrl_open \/ ok THEN "None" ELSE "raise")
    /\ UNCHANGED <<xVars, heap, _ports, rm, sockVars, wrVars>>

\* PrologixGPIBcontroller.close
PlxClose ==
    /\ ctrl_open' = FALSE
    /\ plx' = [plx EXCEPT !.sent = << >>]
    /\ last' = Call("plx_close", "", EmptyDict, EmptyDict, "None")
    /\ UNCHANGED <<xVars, heap, _ports, rm, sockVars, wrVars>>

\* PrologixGPIBcontroller.write(cmd, ID) for a device command cmd: serial
\* write raises on a closed port, ID_port_properties[ID] raises KeyError for
\* an address that was never opened
PlxWrite(cmd, ID) ==
    LET readdress == ID # plx._current_gpib_ID
        c1 == [plx EXCEPT !._current_gpib_ID = ID, !.target = ID]
    IN  /\ IF ~ctrl_open
           THEN /\ plx' = [c1 EXCEPT !.sent = << >>, !.msg = << >>]
                /\ last' = Call("plx_write", cmd, EmptyDict, EmptyDict,
                                "raise")
           ELSE \E lines \in {(IF readdress THEN <<Line("++addr", ID)>> ELSE << >>)
                              \o (IF ID \in plx.ID_port_properties
                                  THEN <<Line(cmd, 0)>> ELSE << >>)} :
                /\ plx' = [Received(c1, lines) EXCEPT
                              !.sent = lines,
                              !.msg = IF ID \in plx.ID_port_properties
                                      THEN device_msg(Text(cmd)) ELSE << >>]
                /\ last' = Call("plx_write", cmd, EmptyDict, EmptyDict,
                                IF ID \in plx.ID_port_properties THEN "None" ELSE "raise")
        /\ UNCHANGED <<xVars, heap, _ports, rm, ctrl_open, sockVars, wrVars>>

\* PrologixGPIBcontroller.write("++addr A", ID): a command that starts with
\* "++" is written as it is and _current_gpib_ID is left alone
PlxWriteAddr(A, ID) ==
    /\ IF ~ctrl_open
       THEN /\ plx' = [plx EXCEPT !.sent = << >>, !.msg = << >>]
            /\ last' = Call("plx_write_addr", "", EmptyDict, EmptyDict, "raise")
       ELSE /\ plx' = [Received(plx, <<Line("++addr", A)>>) EXCEPT
                          !.sent = <<Line("++addr", A)>>, !.msg = << >>]
            /\ last' = Call("plx_write_addr", "", EmptyDict, EmptyDict, "None")
    /\ UNCHANGED <<xVars, heap, _ports, rm, ctrl_open, sockVars, wrVars>>

\* PrologixGPIBcontroller.read(ID): "++read eoi" is written and a line is read
\* until an answer came or the timeout has passed
PlxRead(ID) ==
    /\ IF ID \notin plx.ID_port_properties \/ ~ctrl_open
       THEN /\ plx' = [plx EXCEPT !.target = ID, !.sent = << >>, !.answer = 0]
            /\ last' = Call("plx_read", "", EmptyDict, EmptyDict, "raise")
       ELSE /\ plx' = [plx EXCEPT !.target = ID,
                                  !.sent = <<Line("++read eoi", 0)>>,
                                  !.answer = IF plx.bus \in plx.pending THEN plx.bus ELSE 0,
                                  !.pending = @ \ {plx.bus}]
            /\ last' = Call("plx_read", "", EmptyDict, EmptyDict, "str")
    /\ UNCHANGED <<xVars, heap, _ports, rm, ctrl_open, sockVars, wrVars>>

-----------------------------------------------------------------------------
(* The PortManager of one process, called by the host and its drivers *)

\* rm = open_resourcemanager() at import: None when no VISA backend loads
Init ==
    /\ heap = << >>
    /\ _ports = << >>
    /\ rm \in {"open", "None"}
    /\ ctrl_open = FALSE
    /\ last = NoCall
    /\ sock = NoSock
    /\ conn = NoConn
    /\ call = NoRead
    /\ now = 0
    /\ wr = NoWriter
    /\ plx = NoController
    /\ pm = ThePortManager
    /\ com = NoCom
    /\ dev = NoDevice
    /\ qry = NoQuery
    /\ ctl = NoControllers

\* the resources and kind lists the callers pass
ResLife == {"COM1", "USB0::1::INSTR", "XYZ"}
DiscoverLife == {"COM1", "USB0::1::INSTR"}
KindsLife == {{"COM"}, {"USB"}, {"USBTMC"}}

Next ==
    \/ \E resource \in ResLife, ok \in BOOLEAN :
          PM_get_port(resource, EmptyDict, EmptyDict, ok)
    \/ \E resource \in ResLife : remove_port(resource)
    \/ \E kinds \in KindsLife, present \in SUBSET DiscoverLife :
          get_resources_available(kinds, present)
    \/ prepareRun
    \/ prepareStop
    \/ \E resource \in ResLife, ok, idok \in BOOLEAN :
          get_identification(resource, ok, idok)

Spec == Init /\ [][Next]_vars

-----------------------------------------------------------------------------
(* The process from its start: PortManager() is called again and again *)

InitSingleton ==
    /\ heap = << >>
    /\ _ports = << >>
    /\ rm \in {"open", "None"}
    /\ ctrl_open = FALSE
    /\ last = NoCall
    /\ sock = NoSock
    /\ conn = NoConn
    /\ call = NoRead
    /\ now = 0
    /\ wr = NoWriter
    /\ plx = NoController
    /\ pm = NoPortManager
    /\ com = NoCom
    /\ dev = NoDevice
    /\ qry = NoQuery
    /\ ctl = NoControllers

NextSingleton ==
    \/ PortManager_new
    \/ /\ pm._instance # 0
       /\ \/ \E resource \in ResLife, ok \in BOOLEAN :
                PM_get_port(resource, EmptyDict, EmptyDict, ok)
          \/ \E resource \in ResLife : remove_port(resource)
          \/ prepareStop

SpecSingleton == InitSingleton /\ [][NextSingleton]_vars

-----------------------------------------------------------------------------
(* One resource requested again and again with different properties *)

\* every get_port of the behaviour names the same resource
OneResource(resource) == \A i \in DOMAIN _ports : _ports[i].key = resource

NextSession(Res, Props, Dlg) ==
    \/ \E resource \in Res, P \in Props, D \in Dlg, ok \in BOOLEAN :
          /\ OneResource(resource)
          /\ PM_get_port(resource, P, D, ok)
    \/ prepareRun
    \/ prepareStop

ResProps == {"COM1", "USB0::1::INSTR"}
PropsAll == {EmptyDict, [baudrate |-> 19200], [clear |-> FALSE],
             [NrDevices |-> 2], [foo |-> 1]}
DlgAll == {EmptyDict, [baudrate |-> 57600]}

NextProps == NextSession(ResProps, PropsAll, DlgAll)

SpecProps == Init /\ [][NextProps]_vars

\* several resources cached, some with a Port whose close raises or with the
\* False that a failed get_identification leaves, and the run stopped
PropsStop == {EmptyDict, [clear |-> FALSE]}

NextStop ==
    \/ \E resource \in ResLife, P \in PropsStop, ok \in BOOLEAN :
          PM_get_port(resource, P, EmptyDict, ok)
    \/ \E resource \in ResLife, ok, idok \in BOOLEAN :
          get_identification(resource, ok, idok)
    \/ prepareRun
    \/ prepareStop

SpecStop == Init /\ [][NextStop]_vars

\* callers that pass their own mapping and callers that pass none, with a
\* dialog that returns properties for some resources
PropsGiven == {EmptyDict, [baudrate |-> 19200]}

NextDefault ==
    \/ \E resource \in DiscoverLife, P \in PropsGiven, D \in DlgAll,
             ok \in BOOLEAN :
          get_port_given(resource, P, D, ok)
    \/ \E resource \in DiscoverLife, D \in DlgAll, ok \in BOOLEAN :
          get_port_omitted(resource, D, ok)
    \/ \E resource \in DiscoverLife : remove_port(resource)

SpecDefault == Init /\ [][NextDefault]_vars

\* every supported kind of resource string, and mappings that name the
\* identity keys of a Port
PropsKinds == {EmptyDict, [ID |-> "COM1"], [type |-> "COM"]}

NextKinds == NextSession(ResourcesAll, PropsKinds, {EmptyDict})

SpecKinds == Init /\ [][NextKinds]_vars

\* mappings with keys that no port type has among its properties
PropsUnknown == {EmptyDict, [foo |-> 1], [open |-> TRUE], [baudrate |-> 19200],
                 [baudrate |-> 19200, foo |-> 1]}

NextUnknown == NextSession(ResProps, PropsUnknown, {EmptyDict})

SpecUnknown == Init /\ [][NextUnknown]_vars

-----------------------------------------------------------------------------
(* One Port object used directly through the Port contract *)

NextPort ==
    \/ \E ID \in ResourcesAll : heap = << >> /\ Construct(ID)
    \/ \E n \in DOMAIN heap, ok \in BOOLEAN : Open(n, ok)
    \/ \E n \in DOMAIN heap : Close(n)
    \/ CloseResourceManager
    \/ \E n \in DOMAIN heap, properties \in PropsAll : UpdateProperties(n, properties)
    \/ \E n \in DOMAIN heap : InitializePortProperties(n)

SpecPort == Init /\ [][NextPort]_vars

-----------------------------------------------------------------------------
(* Two GPIB Ports of two devices behind the same Prologix controller *)

ResShared == {"GPIB::5::Prologix@COM9", "GPIB::7::Prologix@COM9"}

NextShared ==
    \/ \E ID \in ResShared :
          /\ \A n \in DOMAIN heap : heap[n].port_ID # ID
          /\ Construct(ID)
    \/ \E n \in DOMAIN heap, ok \in BOOLEAN : Open(n, ok)
    \/ \E n \in DOMAIN heap : Close(n)

SpecShared == Init /\ [][NextShared]_vars

-----------------------------------------------------------------------------
(* The resource manager while the VISA backend comes and goes *)

ResVisa == {"USB0::1::INSTR", "TCPIP0::1.2.3.4::INSTR"}

\* rm = open_resourcemanager() at import, the other variables as in Init
InitRM ==
    /\ heap = << >>
    /\ _ports = << >>
    /\ \E backend \in BOOLEAN : rm = open_resourcemanager(backend)
    /\ ctrl_open = FALSE
    /\ last = NoCall
    /\ sock = NoSock
    /\ conn = NoConn
    /\ call = NoRead
    /\ now = 0
    /\ wr = NoWriter
    /\ plx = NoController
    /\ pm = ThePortManager
    /\ com = NoCom
    /\ dev = NoDevice
    /\ qry = NoQuery
    /\ ctl = NoControllers

\* sessions are opened only through an open manager, so that no step but
\* GetResourceManager depends on the backend
NextRM ==
    \/ \E op \in {"get_resourcemanager", "prepareRun"}, backend \in BOOLEAN :
          GetResourceManager(op, backend)
    \/ CloseResourceManager
    \/ prepareStop
    \/ \E ID \in ResVisa :
          /\ \A n \in DOMAIN heap : heap[n].port_ID # ID
          /\ Construct(ID)
    \/ \E n \in DOMAIN heap, ok \in BOOLEAN : rm = "open" /\ Open(n, ok)
    \/ \E n \in DOMAIN heap : Close(n)

SpecRM == InitRM /\ [][NextRM]_vars

-----------------------------------------------------------------------------
(* One SOCKETport connected to the echo server of dev/echo_server.py *)

PING_LF == <<"P", "I", "N", "G", "\n">>

\* what the driver writes, how many digits it reads and the properties it
\* passes for the port
CmdsSock == {PING_LF, <<"P">>, << >>}
DigitsSock == {0, 2}
PropsSock ==
    {EmptyDict, [SOCKET_EOLwrite |-> <<"\n">>], [SOCKET_EOLread |-> <<"\n">>],
     [rstrip |-> FALSE]}

InitSocket ==
    /\ heap = << >>
    /\ _ports = << >>
    /\ rm = "None"
    /\ ctrl_open = FALSE
    /\ last = NoCall
    /\ \E properties \in PropsSock :
          sock = SocketOpened(Update(SocketProperties, properties))
    /\ conn = NoConn
    /\ call = NoRead
    /\ now = 0
    /\ wr = NoWriter
    /\ plx = NoController
    /\ pm = ThePortManager
    /\ com = NoCom
    /\ dev = NoDevice
    /\ qry = NoQuery
    /\ ctl = NoControllers

NextSocket ==
    \/ \E cmd \in CmdsSock : SockWrite(cmd)
    \/ \E k \in 1..MaxBytes : PeerEcho(k)
    \/ \E digits \in DigitsSock : SockRead(digits)
    \/ \E dt \in {0, 1} : RecvData(dt)
    \/ RecvTimeout

SpecSocket == InitSocket /\ [][NextSocket]_vars

-----------------------------------------------------------------------------
(* One open Port of each class written to with a delay *)

InitWrite ==
    /\ heap = << >>
    /\ _ports = << >>
    /\ rm = "None"
    /\ ctrl_open = FALSE
    /\ last = NoCall
    /\ sock = NoSock
    /\ conn = NoConn
    /\ call = NoRead
    /\ now = 0
    /\ \E cls \in WriterClasses, delay \in 0..MaxDelay : wr = Writer(cls, delay)
    /\ plx = NoController
    /\ pm = ThePortManager
    /\ com = NoCom
    /\ dev = NoDevice
    /\ qry = NoQuery
    /\ ctl = NoControllers

NextWrite ==
    \/ Tick
    \/ \E empty \in BOOLEAN : Write(empty)
    \/ \E empty \in BOOLEAN : WriteRaw(empty)
    \/ WaitOver
    \/ SleepOver

SpecWrite == InitWrite /\ [][NextWrite]_vars

-----------------------------------------------------------------------------
(* One open COMport read from while its device sends *)

\* the properties the driver passes for the port
PropsCom ==
    {EmptyDict, [Exception |-> FALSE], [raw_read |-> TRUE], [encoding |-> "ascii"]}

InitCom ==
    /\ heap = << >>
    /\ _ports = << >>
    /\ rm = "None"
    /\ ctrl_open = FALSE
    /\ last = NoCall
    /\ sock = NoSock
    /\ conn = NoConn
    /\ call = NoRead
    /\ now = 0
    /\ wr = NoWriter
    /\ plx = NoController
    /\ pm = ThePortManager
    /\ \E properties \in PropsCom : com = ComOpened(Update(ComProperties, properties))
    /\ dev = NoDevice
    /\ qry = NoQuery
    /\ ctl = NoControllers

NextCom ==
    \/ \E b \in BytesCom : ComSend(b)
    \/ \E digits \in {0, 2} : ComRead(digits)
    \/ ComOpen

SpecCom == InitCom /\ [][NextCom]_vars

-----------------------------------------------------------------------------
(* One COMport written to; the device never answers, so a read closes it *)

PropsComWrite ==
    {EmptyDict, [EOLwrite |-> <<"\r">>], [raw_write |-> TRUE], [EOL |-> << >>]}

InitComWrite ==
    /\ heap = << >>
    /\ _ports = << >>
    /\ rm = "None"
    /\ ctrl_open = FALSE
    /\ last = NoCall
    /\ sock = NoSock
    /\ conn = NoConn
    /\ call = NoRead
    /\ now = 0
    /\ wr = NoWriter
    /\ plx = NoController
    /\ pm = ThePortManager
    /\ \E P \in PropsComWrite : com = ComOpened(Update(ComProperties, P))
    /\ dev = NoDevice
    /\ qry = NoQuery
    /\ ctl = NoControllers

NextComWrite ==
    \/ \E cmd \in CmdsCom : ComWrite(cmd)
    \/ \E cmd \in CmdsCom : ComWriteRaw(cmd)
    \/ ComRead(0)
    \/ ComOpen

SpecComWrite == InitComWrite /\ [][NextComWrite]_vars

-----------------------------------------------------------------------------
(* One driver object derived from EmptyDevice *)

InitDevice ==
    /\ heap = << >>
    /\ _ports = << >>
    /\ rm = "None"
    /\ ctrl_open = FALSE
    /\ last = NoCall
    /\ sock = NoSock
    /\ conn = NoConn
    /\ call = NoRead
    /\ now = 0
    /\ wr = NoWriter
    /\ plx = NoController
    /\ pm = ThePortManager
    /\ com = NoCom
    /\ \E defaults \in DefaultsDev : dev = Device(defaults)
    /\ qry = NoQuery
    /\ ctl = NoControllers

NextDevice ==
    \/ DevReset
    \/ \E items \in ParamsDev : DevSetParameters(items)
    \/ DevGetParameters

SpecDevice == InitDevice /\ [][NextDevice]_vars

-----------------------------------------------------------------------------
(* Two threads calling query on the same Port *)

InitQuery ==
    /\ heap = << >>
    /\ _ports = << >>
    /\ rm = "None"
    /\ ctrl_open = FALSE
    /\ last = NoCall
    /\ sock = NoSock
    /\ conn = NoConn
    /\ call = NoRead
    /\ now = 0
    /\ wr = NoWriter
    /\ plx = NoController
    /\ pm = ThePortManager
    /\ com = NoCom
    /\ dev = NoDevice
    /\ qry = NoQuery
    /\ ctl = NoControllers

NextQuery ==
    \/ \E t \in Callers, cmd \in CmdsQuery : QueryWrite(t, cmd)
    \/ \E t \in Callers : QueryRead(t)

SpecQuery == InitQuery /\ [][NextQuery]_vars

-----------------------------------------------------------------------------
(* Controllers registered and removed between discovery passes *)

InitControllers ==
    /\ heap = << >>
    /\ _ports = << >>
    /\ rm = "None"
    /\ ctrl_open = FALSE
    /\ last = NoCall
    /\ sock = NoSock
    /\ conn = NoConn
    /\ call = NoRead
    /\ now = 0
    /\ wr = NoWriter
    /\ plx = NoController
    /\ pm = ThePortManager
    /\ com = NoCom
    /\ dev = NoDevice
    /\ qry = NoQuery
    /\ ctl = NoControllers

NextControllers ==
    \/ \E address \in AddressesCtl : AddController(address)
    \/ \E address \in AddressesCtl : RemoveController(address)
    \/ \E present \in SUBSET SerialDevices : FindCOM(present)
    \/ \E present \in SUBSET VisaGPIB, rmok \in BOOLEAN : FindGPIB(present, rmok)

SpecControllers == InitControllers /\ [][NextControllers]_vars

-----------------------------------------------------------------------------
(* One Prologix controller with the devices behind it *)

\* the controller registered, its serial port not yet opened
InitPrologix ==
    /\ heap = << >>
    /\ _ports = << >>
    /\ rm = "None"
    /\ ctrl_open = FALSE
    /\ last = NoCall
    /\ sock = NoSock
    /\ conn = NoConn
    /\ call = NoRead
    /\ now = 0
    /\ wr = NoWriter
    /\ plx = NoController
    /\ pm = ThePortManager
    /\ com = NoCom
    /\ dev = NoDevice
    /\ qry = NoQuery
    /\ ctl = NoControllers

NextPrologix ==
    \/ \E ID \in AddrsPlx, ok \in BOOLEAN : PlxOpen(ID, ok)
    \/ PlxClose
    \/ \E cmd \in CmdsPlx, ID \in AddrsPlx : PlxWrite(cmd, ID)
    \/ \E A \in AddrsPlx, ID \in AddrsPlx : PlxWriteAddr(A, ID)
    \/ \E ID \in AddrsPlx : PlxRead(ID)

SpecPrologix == InitPrologix /\ [][NextPrologix]_vars

-----------------------------------------------------------------------------
(* Properties of the PortManager and of the Port contract *)

\* the Port object get_port has just returned for resource last'.res
Returned == heap'[PortOf(_ports', last'.res)]

\* the keys customised by a call: its properties and the dialog's
Customised(c) == (DOMAIN c.P) \cup (DOMAIN c.D)

\* C1: when get_port(R, P2) follows get_port(R, P1), every key of P2 and of
\* the second call's dialog properties has that value on the returned Port, and
\* every key only the first call customised is back at the value a fresh Port
\* of that kind has (absent, if a fresh Port has no such key)
C1_NoLeakAcrossCalls ==
    [][ ( /\ last.op = "get_port" /\ last.ret = "Port"
          /\ last'.op = "get_port" /\ last'.ret = "Port"
          /\ last'.res = last.res )
        => /\ \A k \in Customised(last') :
                 Returned.port_properties[k] = Update(last'.P, last'.D)[k]
           /\ \A k \in Customised(last) \ Customised(last') :
                 LET fresh == PortInit(last.res).p.port_properties
                 IN  IF k \in DOMAIN fresh
                     THEN Returned.port_properties[k] = fresh[k]
                     ELSE k \notin DOMAIN Returned.port_properties ]_vars

\* C2: open() on a Port whose open flag is True (the transport can be opened)
\* and close() on a Port whose open flag is False, never opened included, do
\* not raise and leave the flag as it was
C2_OpenCloseIdempotent ==
    [][ /\ ( /\ last'.op = "open" /\ last'.ok
             /\ heap[1].port_properties["open"] = TRUE )
           => /\ last'.ret # "raise"
              /\ heap'[1].port_properties["open"] = TRUE
        /\ ( /\ last'.op = "close"
             /\ heap[1].port_properties["open"] = FALSE )
           => /\ last'.ret # "raise"
              /\ heap'[1].port_properties["open"] = FALSE ]_vars

\* the transport kind each resource-string prefix stands for
ExpectedKind(ID) ==
    CASE ID = "COM1" -> "COM"
      [] ID \in {"GPIB0::1::INSTR", "GPIB::5::Prologix@COM9",
                 "GPIB::7::Prologix@COM9"} -> "GPIB"
      [] ID \in {"USB0::1::INSTR", "USBTMC1"} -> "USBTMC"
      [] ID = "PXI0::1::INSTR" -> "PXI"
      [] ID = "ASRL1::INSTR" -> "ASRL"
      [] ID = "TCPIP0::1.2.3.4::INSTR" -> "TCPIP"
      [] ID = "192.168.0.2:5025" -> "SOCKET"
      [] OTHER -> "none"

\* C3: a successful get_port(resource, properties) returns a Port whose type
\* is the kind of the resource's prefix and whose ID is the resource string
C3_TypeAndIDOfReturnedPort ==
    [][ (last'.op = "get_port" /\ last'.ret = "Port")
        => /\ Returned.port_properties["type"] = ExpectedKind(last'.res)
           /\ Returned.port_properties["ID"] = last'.res ]_vars

\* C4: get_port for an uncached resource does not raise; a call that returns
\* False leaves no cache entry, and a call that returns a Port has opened
\* its transport (no kind, no Port or no open transport means False)
C4_FailureGivesSentinel ==
    [][ (last'.op = "get_port" /\ ~InPorts(_ports, last'.res))
        => /\ last'.ret # "raise"
           /\ last'.ret = "False" => ~InPorts(_ports', last'.res)
           /\ last'.ret = "Port" => Returned.port \in {"live", "ctrl"} ]_vars

\* C5: get_port for a resource that is uncached or cached with a Port
\* returns the Port or False and never raises
C5_GetPortNeverRaises ==
    [][ ( /\ last'.op = "get_port"
          /\ InPorts(_ports, last'.res) => PortOf(_ports, last'.res) # FalseEntry )
        => last'.ret \in {"Port", "False"} ]_vars

\* C6: a cached Port of kind K whose resource get_resources_available([K])
\* does not discover is not in the returned list and not in the cache
\* afterwards
C6_StaleResourceEvicted ==
    [][ last'.op = "get_resources_available"
        => \A i \in DOMAIN _ports :
              ( /\ _ports[i].port # FalseEntry
                /\ heap[_ports[i].port].port_properties["type"] \in last'.kinds
                /\ _ports[i].key \notin last'.found )
              => /\ _ports[i].key \notin last'.list
                 /\ ~InPorts(_ports', _ports[i].key) ]_vars

\* C7: no two Port objects of one resource string have the open flag True
C7_OneOpenPortPerResource ==
    \A i, j \in DOMAIN heap :
        ( /\ i # j
          /\ heap[i].port_ID = heap[j].port_ID
          /\ heap[i].port_properties["open"] = TRUE )
        => heap[j].port_properties["open"] = FALSE

\* C8: with rstrip True and every other property at its default, the read()
\* that is called when the peer has echoed all of "PING\n" returns "PING"
C8_SocketRoundTrip ==
    [][ ( /\ last'.op = "read"
          /\ sock.port_properties = SocketProperties
          /\ sock.buffer = << >>
          /\ conn = [out |-> << >>, in |-> PING_LF] )
        => /\ call'.pc = "idle"
           /\ call'.ret = "str"
           /\ call'.answer = <<"P", "I", "N", "G">> ]_vars

\* C9: with a delay d > 0 the last two transport writes of a Port are at
\* least d apart
C9_WriteSpacing ==
    (wr.delay > 0 /\ wr.writes.prev >= 0)
    => wr.writes.last - wr.writes.prev >= wr.delay

\* C10: a device write or read for address n that returns sends ++addr n
\* exactly when n is not the address of the previous addressed call
C10_AddressSentOnChange ==
    [][ (last'.op \in {"plx_write", "plx_read"} /\ last'.ret # "raise")
        => ( (Line("++addr", plx'.target) \in Range(plx'.sent))
             <=> (plx'.target # plx.target) ) ]_vars

\* C11: a PortManager() after the first returns the instance the first made
\* and leaves the cache, the Port objects and the controller as they were; the
\* first one makes the instance and the empty cache
C11_Singleton ==
    [][ last'.op = "PortManager"
        => IF pm._instance # 0
           THEN /\ pm'.returned = pm._instance
                /\ pm'._instance = pm._instance
                /\ pm'.made = pm.made
                /\ _ports' = _ports
                /\ heap' = heap
                /\ ctrl_open' = ctrl_open
           ELSE /\ pm'.returned = pm'._instance
                /\ pm'._instance # 0
                /\ pm'.initialized
                /\ _ports' = << >> ]_vars

\* a later PortManager() has returned while the cache holds an entry
C11_Witness ==
    /\ last.op = "PortManager"
    /\ pm.returned = 1
    /\ _ports # << >>

\* C12: when prepareStop() has returned, every cached Port has the open flag
\* False and the resource manager is not open
C12_StopClosesEveryPort ==
    [][ last'.op = "prepareStop"
        => /\ \A i \in DOMAIN _ports' :
                 _ports'[i].port # FalseEntry
                 => heap'[_ports'[i].port].port_properties["open"] = FALSE
           /\ rm' # "open" ]_vars

\* C13: remove_port(R) returns without error, the cache has no entry for R
\* afterwards and every other entry is as before, in the same order; no Port
\* object changes (the evicted Port keeps its open flag and its handle), nor
\* does the resource manager or the controller
C13_RemovePortFrame ==
    [][ last'.op = "remove_port"
        => /\ last'.ret = "None"
           /\ ~InPorts(_ports', last'.res)
           /\ Len(_ports') = Len(_ports) - (IF InPorts(_ports, last'.res) THEN 1 ELSE 0)
           /\ \A i, j \in DOMAIN _ports :
                 (i < j /\ _ports[i].key # last'.res /\ _ports[j].key # last'.res)
                 => \E k, l \in DOMAIN _ports' :
                       k < l /\ _ports'[k] = _ports[i] /\ _ports'[l] = _ports[j]
           /\ \A i \in DOMAIN _ports :
                 _ports[i].key # last'.res => \E k \in DOMAIN _ports' : _ports'[k] = _ports[i]
           /\ heap' = heap
           /\ rm' = rm
           /\ ctrl_open' = ctrl_open ]_vars

\* remove_port has evicted a Port that is still open, its handle live
C13_Witness ==
    /\ last.op = "remove_port"
    /\ ~InPorts(_ports, last.res)
    /\ \E n \in DOMAIN heap :
          /\ heap[n].port_ID = last.res
          /\ heap[n].port_properties["open"] = TRUE
          /\ heap[n].port = "live"

\* the mapping P without the key k
Without(P, k) ==
    IF DOMAIN P \subseteq {k} THEN EmptyDict
    ELSE [x \in (DOMAIN P) \ {k} |-> P[x]]

\* C14: a get_port whose mapping has a key k that no port type knows reports
\* the key, returns what the same call without k would return in the same
\* state (a Port or False, never an exception caused by the key), and a
\* returned Port has k with its value among its properties
C14_UnknownKeyIgnored ==
    [][ \A resource \in ResProps, P \in PropsUnknown, ok \in BOOLEAN,
           r \in {"Port", "False", "raise"} :
           ( /\ last'.op = "get_port" /\ last'.res = resource /\ last'.P = P
             /\ last'.ok = ok /\ last'.ret = r )
           => \A k \in UnknownKeys(P) :
                 /\ k \in last'.diag
                 /\ ENABLED ( /\ PM_get_port(resource, Without(P, k), EmptyDict, ok)
                              /\ last'.ret = r )
                 /\ r = "Port" => /\ k \in DOMAIN Returned.port_properties
                                  /\ Returned.port_properties[k] = P[k] ]_vars

\* C15: the mapping initialize_port_properties() produces is, the open flag
\* aside, the mapping of a newly constructed Port of that resource, whatever
\* update_properties calls came before
C15_InitializeRecomputes ==
    [][ (last'.op = "initialize_port_properties" /\ last'.ret = "None")
        => [heap'[1].port_properties EXCEPT !["open"] = FALSE]
              = PortInit(heap[1].port_ID).p.port_properties ]_vars

\* C16: on the Port get_port returns, every key (the open flag aside) has the
\* dialog's value if the dialog sets it, else the driver's value if the driver
\* sets it, else the value a newly constructed Port of that resource has
C16_Layering ==
    [][ (last'.op = "get_port" /\ last'.ret = "Port")
        => LET fresh == PortInit(last'.res).p.port_properties
               got   == Returned.port_properties
           IN  \A k \in ((DOMAIN got) \cup (DOMAIN fresh) \cup Customised(last')) \ {"open"} :
                  /\ k \in DOMAIN got
                  /\ IF k \in DOMAIN last'.D THEN got[k] = last'.D[k]
                     ELSE IF k \in DOMAIN last'.P THEN got[k] = last'.P[k]
                     ELSE k \in DOMAIN fresh /\ got[k] = fresh[k] ]_vars

\* C17: a read through the Prologix controller that receives nothing within
\* the timeout (the addressed device has no answer) raises
C17_ReadTimeoutRaises ==
    [][ ( /\ last'.op = "plx_read"
          /\ ctrl_open
          /\ plx'.target \in plx.ID_port_properties
          /\ plx.bus \notin plx.pending )
        => last'.ret = "raise" ]_vars

\* C18: a read() on an open COM Port changes the open flag exactly when it
\* raises the no-response error, then to False, and it raises that error
\* exactly when it received no byte and property Exception is True
C18_ClosesOnNoResponseOnly ==
    [][ (last'.op = "com_read" /\ com.port = "live")
        => /\ (com'.port_properties["open"] # com.port_properties["open"])
                 <=> (com'.ret = "no response")
           /\ com'.ret = "no response" => com'.port_properties["open"] = FALSE
           /\ (com'.ret = "no response")
                 <=> (com'.received = << >> /\ com.port_properties["Exception"] = TRUE) ]_vars

\* the payload with ESC escaped first, then CR, LF and "+"
Escaped(cmd) ==
    replace(replace(replace(replace(cmd, ESC, <<ESC, ESC>>),
                            "\r", <<ESC, "\r">>), "\n", <<ESC, "\n">>), "+", <<ESC, "+">>)

\* C19: the message a device write puts on the serial line is the command
\* with every ESC, CR, LF and "+" preceded by ESC (ESC escaped first),
\* followed by the line feed that ends the message
C19_PayloadEscaped ==
    [][ (last'.op = "plx_write" /\ last'.ret = "None")
        => plx'.msg = Escaped(Text(last'.res)) \o <<"\n">> ]_vars

\* C20: close() on one GPIB Port of a Prologix controller leaves the serial
\* connection of the controller open while another GPIB Port of the same
\* controller has the open flag True
C20_ControllerOutlivesPort ==
    [][ ( /\ last'.op = "close"
          /\ ctrl_open
          /\ \E n \in DOMAIN heap :
                /\ heap[n].port_ID # last'.res
                /\ ControllerOf(heap[n].port_ID) = ControllerOf(last'.res)
                /\ heap[n].port = "ctrl"
                /\ heap[n].port_properties["open"] = TRUE )
        => ctrl_open' ]_vars

\* C21: after prepareRun() or get_resourcemanager() called while the backend
\* is available the resource manager is open, whether it was never opened,
\* closed or open before
C21_ManagerOpenAfterPrepareRun ==
    [][ (last'.op \in {"prepareRun", "get_resourcemanager"} /\ last'.ok)
        => rm' = "open" ]_vars

\* C22: write_raw(cmd) with a non-empty cmd on an open COM Port returns and
\* hands exactly the bytes of cmd to the serial port, nothing appended
C22_RawWriteExact ==
    [][ (last'.op = "com_write_raw" /\ com.port = "live" /\ com'.cmd.data # << >>)
        => /\ com'.ret = "None"
           /\ com'.tx = com'.cmd.data ]_vars

\* C23: write("") and write_raw("") change nothing of the Port: no transport
\* write is issued, the last-write timestamp and every property stay as they were
C23_EmptyWriteNoop ==
    [][ (last'.op \in {"write", "write_raw"} /\ last'.res = "empty")
        => wr' = wr ]_vars

\* C23 witness: write_raw("") on a COMport that has written before, called
\* at a time later than its last-write timestamp
C23_Witness ==
    /\ last.op = "write_raw"
    /\ last.res = "empty"
    /\ wr.cls = "COM"
    /\ wr.writes.last >= 0
    /\ now > wr.stamp

\* C24: the Port of every cache entry has the entry's key as its ID and the
\* kind of that key as its type, whatever calls were made
C24_IdentityImmutable ==
    \A i \in DOMAIN _ports :
        _ports[i].port # FalseEntry
        => /\ heap[_ports[i].port].port_properties["ID"] = _ports[i].key
           /\ heap[_ports[i].port].port_properties["type"] = ExpectedKind(_ports[i].key)

\* the saved parameters reset_latest_parameters is to leave: the defaults,
\* lists replaced by their first element, and the previous Device and Port
ResetParameters(d) ==
    LET previous == IF d.is_set THEN d._latest_parameters ELSE EmptyDict
    IN  Update(FirstElements(d.default_params),
               [k \in {"Device", "Port"} \cap DOMAIN previous |-> previous[k]])

\* C25: reset_latest_parameters returns and leaves the saved parameters at the
\* defaults (a list replaced by its first element) plus the Device and Port
\* saved before, whatever was saved before
C25_ResetToDefaults ==
    [][ last'.op = "reset_latest_parameters"
        => /\ dev'.ret = "None"
           /\ dev'.is_set
           /\ dev'._latest_parameters = ResetParameters(dev) ]_vars

\* C26: set_parameters(P) raises ValueError if P has a key that is neither
\* saved (after the initialisation of unset parameters) nor one of Port,
\* Label, Channel, Device; otherwise it returns and the saved parameters are
\* the ones saved before (the defaults, if none were) with P's keys overwritten
C26_SetOverwritesKeysOfP ==
    [][ last'.op = "set_parameters"
        => /\ dev'.ret \in {"None", "ValueError"}
           /\ LET base == IF dev.is_set THEN dev._latest_parameters
                                        ELSE ResetParameters(dev)
                  P == AsDict(dev'.parameters)
                  keys == DOMAIN base \cup {"Port", "Label", "Channel", "Device"}
              IN  IF DOMAIN P \subseteq keys
                  THEN /\ dev'.ret = "None"
                       /\ dev'._latest_parameters = Update(base, P)
                  ELSE dev'.ret = "ValueError" ]_vars

\* C27: a cached Port of a requested kind whose resource the discovery pass of
\* get_resources_available finds again is still cached after the call
C27_RediscoveredStaysCached ==
    [][ last'.op = "get_resources_available"
        => \A i \in DOMAIN _ports :
              ( /\ _ports[i].port # FalseEntry
                /\ heap[_ports[i].port].port_properties["type"] \in last'.kinds
                /\ _ports[i].key \in last'.found )
              => InPorts(_ports', _ports[i].key) ]_vars

\* C28: a read(ID) through the Prologix controller that returns gives no
\* answer or the answer of the device at address ID, never another device's
C28_ReadAnswersOwnDevice ==
    [][ (last'.op = "plx_read" /\ last'.ret = "str")
        => plx'.answer \in {0, plx'.target} ]_vars

\* C29: query is a write followed by a read with no mutual exclusion: whenever
\* a thread's query reads, the transport has already sent the command of that
\* same call (a thread receiving the response to the other thread's command
\* is the witness)
C29_WriteBeforeRead ==
    [][ last'.op = "query_read"
        => \E t \in Callers :
              /\ last'.ok = (t = 1)
              /\ qry.calls[t] > 0
              /\ \E i \in DOMAIN qry.tx :
                    qry.tx[i].by = t /\ qry.tx[i].call = qry.calls[t] ]_vars

\* C29 witness: a thread's query has returned the response to the command the
\* other thread wrote
C29_Witness ==
    \E t \in Callers : qry.got[t].by \notin {0, t}

\* C30: on a SOCKET Port with a read EOL configured, a read() with digits=0
\* that returns gives the received characters up to the first EOL marker,
\* without the marker, and leaves everything after the marker to be read next
C30_ReadUpToReadEOL ==
    [][ ( /\ sock.read_termination # << >>
          /\ last'.op \in {"read", "recv"}
          /\ call'.digits = 0
          /\ call'.ret = "str" )
        => LET stream == sock.buffer \o conn.in
               idx == find(stream, sock.read_termination)
           IN  /\ idx >= 0
               /\ call'.answer = Take(stream, idx)
               /\ sock'.buffer \o conn'.in
                    = Drop(stream, idx + Len(sock.read_termination)) ]_vars

\* C31: a SOCKET read() with digits=0 raises only when the configured timeout
\* has elapsed since the read started; a recv that delivers nothing within its
\* own 0.1 s does not end the read
C31_RaisesOnlyAfterTimeout ==
    [][ ( /\ last'.op \in {"read", "recv"}
          /\ call'.digits = 0
          /\ call'.ret = "raise" )
        => call'.elapsed > sock.port_properties["timeout"] ]_vars

\* C32: readline of a read() with digits=0 on an open COM Port reports
\* eol_found exactly when the received bytes end with the EOL, and its payload
\* is the received bytes without that EOL, or all received bytes when the
\* stream ran dry before an EOL
C32_ReadlinePayload ==
    [][ (last'.op = "com_read" /\ com.port = "live" /\ com'.digits = 0)
        => LET props == com.port_properties
               EOL == IF props["EOLread"] # None THEN props["EOLread"] ELSE props["EOL"]
               r == readline(<< >>, com.rx, EOL)
           IN  /\ r.eol_found <=> (Len(r.line) >= Len(EOL) /\ LastN(r.line, Len(EOL)) = EOL)
               /\ r.payload = IF r.eol_found
                              THEN SubSeq(r.line, 1, Len(r.line) - Len(EOL))
                              ELSE r.line ]_vars

\* C33: add registers and remove unregisters the controller; a COM discovery
\* returns no address of a controller registered at that time, and a GPIB
\* discovery holds exactly the 30 synthetic resources of every controller
\* registered at that time and none of any other
C33_DiscoveryFollowsRegistry ==
    [][ /\ last'.op = "add_prologix_controller" => last'.res \in ctl'.prologix_controller
        /\ last'.op = "remove_prologix_controller"
              => last'.res \notin ctl'.prologix_controller
        /\ last'.op = "find_COM" => ctl'.com \cap ctl'.prologix_controller = {}
        /\ last'.op = "find_GPIB"
              => \A address \in AddressesCtl :
                    {x \in ctl'.gpib : x[1] = "GPIB" /\ x[4] = address}
                      = IF address \in ctl'.prologix_controller
                        THEN {<<"GPIB", i, "Prologix@", address>> : i \in 1..30}
                        ELSE {} ]_vars

\* C33 witness: the controller at COM9 was listed by a GPIB discovery, was
\* removed, and the COM discovery that follows lists COM9 again
C33_Witness ==
    /\ last.op = "find_COM"
    /\ "COM9" \in ctl.com
    /\ <<"GPIB", 1, "Prologix@", "COM9">> \in ctl.gpib
    /\ "COM10" \in ctl.prologix_controller

\* C34: close_all_ports (in prepareStop) does not raise, and every cached Port
\* that was open and whose own close does not raise has the open flag False
\* afterwards, whatever the closing of the other cache entries did
C34_CloseAllIsolates ==
    [][ last'.op = "prepareStop"
        => /\ last'.ret # "raise"
           /\ \A i \in DOMAIN _ports :
                 ( /\ _ports[i].port # FalseEntry
                   /\ heap[_ports[i].port].port_properties["open"] = TRUE
                   /\ ~PortClose(heap[_ports[i].port], ctrl_open).exc )
                 => heap'[_ports[i].port].port_properties["open"] = FALSE ]_vars

\* C34 witness: after prepareStop a cached Port whose close raised (it has no
\* handle and is still flagged open) precedes a cached Port that was closed
C34_Witness ==
    /\ last.op = "prepareStop"
    /\ \E i, j \in DOMAIN _ports :
          /\ i < j
          /\ _ports[i].port # FalseEntry
          /\ _ports[j].port # FalseEntry
          /\ heap[_ports[i].port].port = "None"
          /\ heap[_ports[i].port].port_properties["open"] = TRUE
          /\ heap[_ports[j].port].port = "closed"
          /\ heap[_ports[j].port].port_properties["open"] = FALSE

\* C35: every value stored in the cache _ports is a Port object, never the
\* False of a failed construction
C35_NoSentinelInCache ==
    \A i \in DOMAIN _ports : _ports[i].port # FalseEntry

\* C36: a Port whose open flag is True has a live transport (through the
\* Prologix controller: the controller's serial port is open)
C36_OpenFlagMeansLive ==
    \A n \in DOMAIN heap :
        heap[n].port_properties["open"] = TRUE
        => \/ heap[n].port = "live"
           \/ heap[n].port = "ctrl" /\ ctrl_open

\* C37: get_port leaves the mapping the caller passed as it was, and a call
\* that passes no mapping runs with an empty one whatever calls came before
C37_CallerMappingUntouched ==
    [][last'.op = "get_port"
       => IF pm'.given
          THEN pm'.passed = last'.P
          ELSE last'.P = EmptyDict]_vars

\* C38: the address the controller object has cached is the address of the
\* last ++addr command that went over the serial line
C38_CachedAddressIsBusAddress == plx._current_gpib_ID = plx.bus

\* C39: when write_raw on a COM Port has finished, by returning or by
\* raising, raw_write and raw_read have the values they had before the call
C39_RawFlagsRestored ==
    [][last'.op = "com_write_raw"
       => /\ com'.port_properties["raw_write"] = com.port_properties["raw_write"]
          /\ com'.port_properties["raw_read"] = com.port_properties["raw_read"]]_vars

\* C40: while a COM Port is open, the settings of its serial connection are
\* the ones its properties hold
C40_SerialSettingsFollowProperties ==
    \A n \in DOMAIN heap :
        (PortClass(heap[n].port_ID) = "COM" /\ heap[n].port = "live")
        => heap[n].baudrate = heap[n].port_properties["baudrate"]

=============================================================================
